---- MODULE Spec2Model ----
(***************************************************************************)
(* A model of zerver/views/users.py and zerver/forms.py: the user and bot  *)
(* administration endpoints of a realm, the captcha form, the password     *)
(* reset form and the subdomain validator.                                 *)
(***************************************************************************)
EXTENDS Integers, Sequences, FiniteSets, TLC

VARIABLES
    users,              \* the realm's UserProfile rows: id -> record
    last,               \* the last request to a user endpoint and how it ended
    altcha_challenges,  \* session["altcha_challenges"] of one HTTP session
    issued,             \* how many challenges the session has been issued
    verified,           \* payload -> how often clean_captcha accepted it
    captcha_enabled,    \* USING_CAPTCHA and ALTCHA_HMAC_KEY are set
    captcha_last,       \* the last clean_captcha call and how it ended
    realm_settings,     \* what the password reset form reads of realm and settings
    email_hits,         \* RateLimitedPasswordResetByEmail: address -> requests counted
    ip_hits,            \* sends_email_by_ip: remote address -> requests counted
    reset_last,         \* the last ZulipPasswordResetForm.save and how it ended
    candidate,          \* the candidate given to check_subdomain_available
    allow_reserved,     \* its allow_reserved_subdomain argument
    existing_realms,    \* the string_id of every Realm
    subdomain_result,   \* what check_subdomain_available answered
    subdomain_warnings, \* the warnings check_subdomain_available produced
    bot_settings,       \* what add_bot_backend reads of settings, realm and caller
    accounts,           \* the accounts of the realm add_bot_backend looks up and creates
    services,           \* the Service rows added for bots
    bot_config,         \* the bot config entries set
    bots_added,         \* how many add_bot_backend requests were handled
    bot_last,           \* the last add_bot_backend request and how it ended
    login_log,          \* what OurAuthenticationForm.logger was given, in order
    login_attempts,     \* how many login forms were cleaned
    login_last,         \* the last OurAuthenticationForm.clean and how it ended
    registration_form,  \* how the RegistrationForm was constructed
    registration_last,  \* the last RegistrationForm submission and its errors
    homepage_form,      \* how the HomepageForm was constructed, and the settings
    homepage_last,      \* the last HomepageForm.clean_email and how it ended
    avatar_realm,       \* what the avatar endpoints read of realm and settings
    avatar_last,        \* the last avatar request and how it ended
    race_payload,       \* the captcha payload two concurrent requests submit
    race_pc,            \* where each of the two requests is in clean_captcha
    race_session,       \* each request's own copy of the session
    race_result,        \* how each request's clean_captcha ended
    race_events,        \* the session reads and write-backs, in order
    conc_req,           \* the two user requests handled at the same time
    conc_pc,            \* where each of the two requests is in its handler
    conc_err,           \* how each of the two requests ended
    conc_events         \* the checks and the writes of the two requests, in order

userVars == <<users, last>>
captchaVars == <<altcha_challenges, issued, verified, captcha_enabled, captcha_last>>
resetVars == <<realm_settings, email_hits, ip_hits, reset_last>>
subdomainVars ==
    <<candidate, allow_reserved, existing_realms, subdomain_result, subdomain_warnings>>
botVars == <<bot_settings, accounts, services, bot_config, bots_added, bot_last>>
loginVars == <<login_log, login_attempts, login_last>>
registrationVars == <<registration_form, registration_last>>
homepageVars == <<homepage_form, homepage_last>>
avatarVars == <<avatar_realm, avatar_last>>
raceVars == <<race_payload, race_pc, race_session, race_result, race_events>>
concVars == <<conc_req, conc_pc, conc_err, conc_events>>
restVars == <<homepageVars, avatarVars, raceVars, concVars>>
vars ==
    <<userVars, captchaVars, resetVars, subdomainVars, botVars, loginVars,
      registrationVars, restVars>>

(***************************************************************************)
(* UserProfile.                                                            *)
(***************************************************************************)
None == "None"
OK == "ok"

ROLE_REALM_OWNER == "owner"
ROLE_REALM_ADMINISTRATOR == "administrator"
ROLE_MEMBER == "member"
ROLE_GUEST == "guest"
ROLE_TYPES == {ROLE_REALM_OWNER, ROLE_REALM_ADMINISTRATOR, ROLE_MEMBER, ROLE_GUEST}

\* The realm of the model: two people and the bot of the second.
Humans == {1, 2}
Bots == {3}
UserIds == Humans \cup Bots
NoUser == 0

is_realm_owner(u) == u.role = ROLE_REALM_OWNER
is_realm_admin(u) == u.role \in {ROLE_REALM_ADMINISTRATOR, ROLE_REALM_OWNER}
is_guest(u) == u.role = ROLE_GUEST

\* Realm.get_human_owner_users: the active, non-bot users holding the owner role.
get_human_owner_users(us) ==
    {i \in DOMAIN us : us[i].role = ROLE_REALM_OWNER /\ ~us[i].is_bot /\ us[i].is_active}

\* UserProfile.objects.filter(realm=..., is_active=True)
active_users(us) == {i \in DOMAIN us : us[i].is_active}

\* UserProfile.can_admin_user: a realm administrator, or the owner of the bot.
can_admin_user(us, c, t) == us[t].bot_owner_id = c \/ is_realm_admin(us[c])

\* access_user_by_id / access_user_by_email, by the flags its callers pass.
access_user_by_id(us, c, t, allow_deactivated, allow_bots, for_admin) ==
    IF t \notin DOMAIN us THEN "JsonableError: No such user"
    ELSE IF us[t].is_bot /\ ~allow_bots THEN "JsonableError: No such user"
    ELSE IF ~us[t].is_active /\ ~allow_deactivated THEN "JsonableError: User is deactivated"
    ELSE IF for_admin /\ ~can_admin_user(us, c, t) THEN "JsonableError: Insufficient permission"
    ELSE OK

\* access_bot_by_id: the target is a bot of the realm the caller may administer.
access_bot_by_id(us, c, t) ==
    IF t \notin DOMAIN us THEN "JsonableError: No such bot"
    ELSE IF ~us[t].is_bot THEN "JsonableError: No such bot"
    ELSE IF ~can_admin_user(us, c, t) THEN "JsonableError: Insufficient permission"
    ELSE OK

\* zerver.actions: the mutations the handlers call.
do_deactivate_user(us, t) == [us EXCEPT ![t].is_active = FALSE]
do_reactivate_user(us, t) == [us EXCEPT ![t].is_active = TRUE]
do_change_user_role(us, t, role) == [us EXCEPT ![t].role = role]

\* What a handler leaves behind: the rows as it wrote them, the error it raised
\* (OK when it returned json_success) and the action functions it called.
Result(us, err, calls) == [users |-> us, err |-> err, calls |-> calls]

(***************************************************************************)
(* views/users.py: check_last_owner and the deactivation endpoints.        *)
(***************************************************************************)
\* A check_last_owner that counts every owner row, bots and deactivated included.
check_last_owner_all_rows(us, u) ==
    /\ is_realm_owner(us[u])
    /\ ~us[u].is_bot
    /\ Cardinality({i \in DOMAIN us : us[i].role = ROLE_REALM_OWNER}) = 1

check_last_owner(us, u) ==
    /\ is_realm_owner(us[u])
    /\ ~us[u].is_bot
    /\ Cardinality(get_human_owner_users(us)) = 1

_deactivate_user_profile_backend(us, c, t, comment) ==
    Result(do_deactivate_user(us, t), OK,
           {"do_deactivate_user"} \cup (IF comment # None THEN {"send_email"} ELSE {}))

\* A deactivate_user_backend that looks for the last owner first.
deactivate_user_backend_last_owner_first(us, c, t, comment) ==
    LET access == access_user_by_id(us, c, t, FALSE, FALSE, TRUE) IN
    IF access # OK THEN Result(us, access, {})
    ELSE IF check_last_owner(us, t)
    THEN Result(us, "JsonableError: Cannot deactivate the only organization owner", {})
    ELSE IF is_realm_owner(us[t]) /\ ~is_realm_owner(us[c])
    THEN Result(us, "OrganizationOwnerRequiredError", {})
    ELSE _deactivate_user_profile_backend(us, c, t, comment)

deactivate_user_backend(us, c, t, comment) ==
    LET access == access_user_by_id(us, c, t, FALSE, FALSE, TRUE) IN
    IF access # OK THEN Result(us, access, {})
    ELSE IF is_realm_owner(us[t]) /\ ~is_realm_owner(us[c])
    THEN Result(us, "OrganizationOwnerRequiredError", {})
    ELSE IF check_last_owner(us, t)
    THEN Result(us, "JsonableError: Cannot deactivate the only organization owner", {})
    ELSE _deactivate_user_profile_backend(us, c, t, comment)

\* The two checks of deactivate_user_own_backend taken in the other order.
deactivate_user_own_backend_owner_first(us, c) ==
    IF is_realm_owner(us[c]) /\ check_last_owner(us, c)
    THEN Result(us, "CannotDeactivateLastUserError(is_last_owner=True)", {})
    ELSE IF Cardinality(active_users(us)) = 1
    THEN Result(us, "CannotDeactivateLastUserError(is_last_owner=False)", {})
    ELSE Result(do_deactivate_user(us, c), OK, {"do_deactivate_user"})

deactivate_user_own_backend(us, c) ==
    IF Cardinality(active_users(us)) = 1
    THEN Result(us, "CannotDeactivateLastUserError(is_last_owner=False)", {})
    ELSE IF is_realm_owner(us[c]) /\ check_last_owner(us, c)
    THEN Result(us, "CannotDeactivateLastUserError(is_last_owner=True)", {})
    ELSE Result(do_deactivate_user(us, c), OK, {"do_deactivate_user"})

deactivate_bot_backend(us, c, t) ==
    LET access == access_bot_by_id(us, c, t) IN
    IF access # OK THEN Result(us, access, {})
    ELSE _deactivate_user_profile_backend(us, c, t, None)

\* check_can_create_bot and check_bot_name_available answer bot_checks.
reactivate_user_backend(us, c, t, bot_checks) ==
    LET access == access_user_by_id(us, c, t, TRUE, TRUE, TRUE) IN
    IF access # OK THEN Result(us, access, {})
    ELSE IF us[t].is_bot /\ bot_checks # OK THEN Result(us, bot_checks, {})
    ELSE Result(do_reactivate_user(us, t), OK, {"do_reactivate_user"})

(***************************************************************************)
(* views/users.py: update_user_backend and its two endpoints.              *)
(***************************************************************************)
\* Request values.  An address is well formed unless it is InvalidEmail; a
\* name passes check_full_name unless it is InvalidName; a custom profile
\* value passes validate_user_custom_profile_data unless it is InvalidValue.
EmailOf == <<"u1@example.com", "u2@example.com", "u3@example.com">>
SpareEmail == "new@example.com"
InvalidEmail == "not-an-email"
InitialName == "Name"
NewName == "Renamed"
BlankName == " "
InvalidName == "Bad*Name"
NoValue == ""
NewValue == "v1"
InvalidValue == "bad value"
ProfileField == "f1"

FullNameInputs == {None, NewName, BlankName, InvalidName}
NewEmailInputs == {None, InvalidEmail, EmailOf[1], SpareEmail}
RoleInputs == {None} \cup ROLE_TYPES
\* profile_data: absent, or a list of ProfileDataElement.
ProfileDataInputs ==
    { [given |-> FALSE, entries |-> <<>>],
      [given |-> TRUE, entries |-> <<[id |-> ProfileField, value |-> NewValue]>>],
      [given |-> TRUE, entries |-> <<[id |-> ProfileField, value |-> NoValue]>>],
      [given |-> TRUE, entries |-> <<[id |-> ProfileField, value |-> NoValue],
                                     [id |-> ProfileField, value |-> InvalidValue]>>] }

strip(s) == IF s = BlankName THEN "" ELSE s

\* django.core.validators.validate_email
validate_email(e) == e # InvalidEmail
\* validate_email_not_already_in_realm: no user of the realm has the address.
validate_email_not_already_in_realm(us, e) ==
    \A i \in DOMAIN us : us[i].delivery_email # e

\* The role authorization of update_user_backend with the owner test on the
\* requested role only.
update_user_role_check_requested_only(us, c, t, role) ==
    IF role = ROLE_REALM_OWNER /\ ~is_realm_owner(us[c])
    THEN "OrganizationOwnerRequiredError"
    ELSE IF ~is_realm_admin(us[c]) THEN "OrganizationAdministratorRequiredError"
    ELSE OK

\* The role authorization of update_user_backend without its elif branch.
update_user_role_check_no_admin_test(us, c, t, role) ==
    IF ROLE_REALM_OWNER \in {role, us[t].role} /\ ~is_realm_owner(us[c])
    THEN "OrganizationOwnerRequiredError"
    ELSE OK

update_user_role_check(us, c, t, role) ==
    IF ROLE_REALM_OWNER \in {role, us[t].role} /\ ~is_realm_owner(us[c])
    THEN "OrganizationOwnerRequiredError"
    ELSE IF ~is_realm_admin(us[c]) THEN "OrganizationAdministratorRequiredError"
    ELSE OK

\* Lines 271-293.  no_spare_license: BILLING_ENABLED is set and
\* check_spare_license_available_for_changing_guest_user_role raises.
update_user_role(us, c, t, role, no_spare_license) ==
    IF role # None /\ us[t].role # role
    THEN LET auth == update_user_role_check(us, c, t, role) IN
         IF auth # OK THEN Result(us, auth, {})
         ELSE IF us[t].role = ROLE_REALM_OWNER /\ check_last_owner(us, t)
         THEN Result(us, "JsonableError: The owner permission cannot be removed from the only organization owner.", {})
         ELSE IF no_spare_license /\ is_guest(us[t])
         THEN Result(us, "LicenseLimitError", {})
         ELSE Result(do_change_user_role(us, t, role), OK, {"do_change_user_role"})
    ELSE Result(us, OK, {})

\* Lines 295-298: check_change_full_name validates the name and stores it.
update_user_full_name(us, c, t, full_name) ==
    IF full_name # None /\ us[t].full_name # full_name /\ strip(full_name) # ""
    THEN IF full_name = InvalidName
         THEN Result(us, "JsonableError: Invalid characters in name!", {})
         ELSE Result([us EXCEPT ![t].full_name = full_name], OK, {"do_change_full_name"})
    ELSE Result(us, OK, {})

\* Lines 302-314: the loop removes the emptied fields at once and collects the rest.
RECURSIVE profile_data_loop(_, _, _, _)
profile_data_loop(us, t, entries, clean) ==
    IF entries = <<>> THEN [users |-> us, clean |-> clean]
    ELSE LET entry == Head(entries) IN
         IF entry.value = NoValue
         THEN profile_data_loop([us EXCEPT ![t].profile = NoValue], t, Tail(entries), clean)
         ELSE profile_data_loop(us, t, Tail(entries), Append(clean, entry))

\* Lines 300-318.
update_user_profile_data(us, c, t, profile_data) ==
    IF profile_data.given
    THEN LET looped == profile_data_loop(us, t, profile_data.entries, <<>>)
             removed == {"check_remove_custom_profile_field_value" :
                            i \in {j \in DOMAIN profile_data.entries :
                                      profile_data.entries[j].value = NoValue}}
         IN  IF \E i \in DOMAIN looped.clean : looped.clean[i].value = InvalidValue
             THEN Result(looped.users, "JsonableError: invalid custom profile data", removed)
             ELSE Result(
                    IF looped.clean = <<>> THEN looped.users
                    ELSE [looped.users EXCEPT
                            ![t].profile = looped.clean[Len(looped.clean)].value],
                    OK,
                    removed \cup {"do_update_user_custom_profile_data_if_changed"})
    ELSE Result(us, OK, {})

\* Lines 320-336.
update_user_delivery_email(us, c, t, new_email) ==
    IF new_email # None /\ us[t].delivery_email # new_email
    THEN IF ~validate_email(new_email)
         THEN Result(us, "JsonableError: Invalid new email address.", {})
         ELSE IF ~validate_email_not_already_in_realm(us, new_email)
         THEN Result(us, "JsonableError: New email value error", {})
         ELSE Result([us EXCEPT ![t].delivery_email = new_email], OK,
                     {"do_change_user_delivery_email"})
    ELSE Result(us, OK, {})

\* A request: the parameters of update_user_backend and what the billing
\* check would answer.
UpdateRequests ==
    [full_name : FullNameInputs, new_email : NewEmailInputs,
     profile_data : ProfileDataInputs, role : RoleInputs, no_spare_license : BOOLEAN]

\* The sections of update_user_backend run one after the other; the first
\* error ends the request with the rows as written so far.
update_user_backend(us, c, t, req) ==
    IF req.new_email # None /\ (~us[c].can_change_user_emails \/ ~is_realm_admin(us[c]))
    THEN Result(us, "JsonableError: User not authorized to change user emails", {})
    ELSE
    LET r1 == update_user_role(us, c, t, req.role, req.no_spare_license) IN
    IF r1.err # OK THEN r1 ELSE
    LET r2 == update_user_full_name(r1.users, c, t, req.full_name) IN
    IF r2.err # OK THEN Result(r2.users, r2.err, r1.calls \cup r2.calls) ELSE
    LET r3 == update_user_profile_data(r2.users, c, t, req.profile_data) IN
    IF r3.err # OK THEN Result(r3.users, r3.err, r1.calls \cup r2.calls \cup r3.calls) ELSE
    LET r4 == update_user_delivery_email(r3.users, c, t, req.new_email) IN
    Result(r4.users, r4.err, r1.calls \cup r2.calls \cup r3.calls \cup r4.calls)

\* transaction.atomic(durable=True): the rows a failed request wrote are rolled back.
transaction_atomic(us, res) ==
    IF res.err = OK THEN res ELSE Result(us, res.err, res.calls)

\* An endpoint that keeps what the handler wrote whether or not it failed.
update_user_by_id_api_autocommit(us, c, t, req) ==
    LET access == access_user_by_id(us, c, t, TRUE, TRUE, TRUE) IN
    IF access # OK THEN Result(us, access, {})
    ELSE update_user_backend(us, c, t, req)

update_user_by_id_api(us, c, t, req) ==
    LET access == access_user_by_id(us, c, t, TRUE, TRUE, TRUE) IN
    IF access # OK THEN Result(us, access, {})
    ELSE transaction_atomic(us, update_user_backend(us, c, t, req))

\* access_user_by_email finds the target by its delivery email.
update_user_by_email_api(us, c, email, req) ==
    LET found == {i \in DOMAIN us : us[i].delivery_email = email} IN
    IF found = {} THEN Result(us, "JsonableError: No such user", {})
    ELSE LET t == CHOOSE i \in found : TRUE
             access == access_user_by_id(us, c, t, TRUE, TRUE, TRUE) IN
         IF access # OK THEN Result(us, access, {})
         ELSE transaction_atomic(us, update_user_backend(us, c, t, req))

(***************************************************************************)
(* views/users.py: patch_bot_backend, its full name and role sections.     *)
(***************************************************************************)
\* A role authorization of patch_bot_backend that lacks the elif branch.
patch_bot_role_check_owner_test_only(us, c, t, role) ==
    IF ROLE_REALM_OWNER \in {role, us[t].role} /\ ~is_realm_owner(us[c])
    THEN "OrganizationOwnerRequiredError"
    ELSE OK

\* The role authorization of patch_bot_backend.
patch_bot_role_check(us, c, t, role) ==
    IF ROLE_REALM_OWNER \in {role, us[t].role} /\ ~is_realm_owner(us[c])
    THEN "OrganizationOwnerRequiredError"
    ELSE IF ~is_realm_admin(us[c]) THEN "OrganizationAdministratorRequiredError"
    ELSE OK

\* check_change_bot_full_name: the name is valid and no other bot has it.
check_change_bot_full_name(us, t, full_name) ==
    IF full_name = InvalidName \/ strip(full_name) = ""
    THEN Result(us, "JsonableError: Invalid characters in name!", {})
    ELSE IF full_name = us[t].full_name THEN Result(us, OK, {})
    ELSE IF \E i \in DOMAIN us : i # t /\ us[i].is_active /\ us[i].full_name = full_name
    THEN Result(us, "JsonableError: Name is already in use!", {})
    ELSE Result([us EXCEPT ![t].full_name = full_name], OK, {"do_change_full_name"})

\* An id that no user of the realm has.
MissingUser == Cardinality(UserIds) + 1
\* bot_owner_id: not given (None), a user of the realm, or no user's id.
OwnerInputs == {NoUser} \cup UserIds \cup {MissingUser}
\* The parameters of the sections after the owner's (default streams,
\* service, config data, avatar file): none given, all accepted, or one
\* refused (a stream the caller cannot access, an invalid interface type,
\* more than one file).
LaterInputs == {None, "accepted", "refused"}

BotRequests ==
    [full_name : FullNameInputs, role : RoleInputs, bot_owner_id : OwnerInputs,
     later : LaterInputs]

NoSuchOwner == "JsonableError: Failed to change owner, no such user"
OwnerDeactivated == "JsonableError: Failed to change owner, user is deactivated"
OwnerIsBot == "JsonableError: Failed to change owner, bots can't own other bots"

do_change_bot_owner(us, t, owner) == [us EXCEPT ![t].bot_owner_id = owner]

\* An owner section that does not look at is_active.
patch_bot_owner_any_state(us, t, bot_owner_id, calls) ==
    IF bot_owner_id # NoUser /\ us[t].bot_owner_id # bot_owner_id
    THEN IF bot_owner_id \notin DOMAIN us THEN Result(us, NoSuchOwner, calls)
         ELSE IF us[bot_owner_id].is_bot THEN Result(us, OwnerIsBot, calls)
         ELSE Result(do_change_bot_owner(us, t, bot_owner_id), OK,
                     calls \cup {"do_change_bot_owner"})
    ELSE Result(us, OK, calls)

\* patch_bot_backend: the bot_owner_id section.
patch_bot_owner(us, t, bot_owner_id, calls) ==
    IF bot_owner_id # NoUser /\ us[t].bot_owner_id # bot_owner_id
    THEN IF bot_owner_id \notin DOMAIN us THEN Result(us, NoSuchOwner, calls)
         ELSE IF ~us[bot_owner_id].is_active THEN Result(us, OwnerDeactivated, calls)
         ELSE IF us[bot_owner_id].is_bot THEN Result(us, OwnerIsBot, calls)
         ELSE Result(do_change_bot_owner(us, t, bot_owner_id), OK,
                     calls \cup {"do_change_bot_owner"})
    ELSE Result(us, OK, calls)

\* patch_bot_backend: the sections after the owner's; they write nothing to
\* the rows kept here.
patch_bot_later(us, later, calls) ==
    IF later = "refused" THEN Result(us, "JsonableError: later section", calls)
    ELSE IF later = "accepted" THEN Result(us, OK, calls \cup {"later sections"})
    ELSE Result(us, OK, calls)

\* No transaction surrounds patch_bot_backend: each section's write stands.
patch_bot_backend(us, c, t, req) ==
    LET access == access_bot_by_id(us, c, t) IN
    IF access # OK THEN Result(us, access, {}) ELSE
    LET r1 == IF req.full_name # None
              THEN check_change_bot_full_name(us, t, req.full_name)
              ELSE Result(us, OK, {}) IN
    IF r1.err # OK THEN r1 ELSE
    LET r2 == IF req.role # None /\ r1.users[t].role # req.role
              THEN LET auth == patch_bot_role_check(r1.users, c, t, req.role) IN
                   IF auth # OK THEN Result(r1.users, auth, r1.calls)
                   ELSE Result(do_change_user_role(r1.users, t, req.role), OK,
                               r1.calls \cup {"do_change_user_role"})
              ELSE r1 IN
    IF r2.err # OK THEN r2 ELSE
    LET r3 == patch_bot_owner(r2.users, t, req.bot_owner_id, r2.calls) IN
    IF r3.err # OK THEN r3 ELSE
    patch_bot_later(r3.users, req.later, r3.calls)

(***************************************************************************)
(* users.py: add_bot_backend.                                              *)
(***************************************************************************)
DEFAULT_BOT == "DEFAULT_BOT"
INCOMING_WEBHOOK_BOT == "INCOMING_WEBHOOK_BOT"
OUTGOING_WEBHOOK_BOT == "OUTGOING_WEBHOOK_BOT"
EMBEDDED_BOT == "EMBEDDED_BOT"
\* A bot_type that is none of the four.
UnknownBotType == "unknown bot type"
BotTypeInputs ==
    {DEFAULT_BOT, INCOMING_WEBHOOK_BOT, OUTGOING_WEBHOOK_BOT, EMBEDDED_BOT, UnknownBotType}

AVATAR_FROM_GRAVATAR == "G"
AVATAR_FROM_USER == "U"

\* The most files a request uploads.
MaxFiles == 2

\* The names of EMBEDDED_BOTS.
EMBEDDED_BOTS == {"helloworld"}
ShortNameInputs == {"foo", "helloworld", BlankName}
BotFullNameInputs == {"Foo Bot", "Bar Bot", InvalidName}
ServiceNameInputs == {None, "helloworld", "giphy"}
GENERIC == "GENERIC"
InvalidInterface == "invalid interface"
InterfaceInputs == {GENERIC, InvalidInterface}
\* config_data: not given or empty, one pair, two pairs, or a pair that
\* check_valid_bot_config refuses.
InvalidConfig == {<<"key", "invalid value">>}
ConfigInputs ==
    {{}, {<<"key", "value">>}, {<<"key", "value">>, <<"token", "abc">>}, InvalidConfig}
\* The two default stream names: none given, every given one accessible to
\* the caller, or one that access_stream_by_name refuses.
StreamInputs == {None, "accessible", "inaccessible"}

AddBotRequests ==
    [bot_type : BotTypeInputs, config_data : ConfigInputs,
     full_name_raw : BotFullNameInputs, short_name_raw : ShortNameInputs,
     interface_type : InterfaceInputs, service_name : ServiceNameInputs,
     files : 0 .. MaxFiles, streams : StreamInputs]

\* The realm's bot domain as get_bot_domain returns it.
BotDomain == "bots.example.com"

BadName == "JsonableError: Bad name or username"
FakeEmailDomainError ==
    "JsonableError: Can't create bots until FAKE_EMAIL_DOMAIN is correctly configured."
EmbeddedBotsDisabled == "JsonableError: Embedded bots are not enabled."
InvalidEmbeddedBotName == "JsonableError: Invalid embedded bot name."
EmailAlreadyInUseError == "EmailAlreadyInUseError"
NameInUse == "JsonableError: Name is already in use!"
OneFileAtATime == "JsonableError: You may only upload one file at a time"

\* Address(username=..., domain=...).addr_spec
addr_spec(username, domain) == username \o "@" \o domain

\* get_user_by_delivery_email finds an account of the realm.
email_in_use(accts, email) == \E a \in accts : a.delivery_email = email

\* A check_bot_name_available that looks at the names of humans only.
check_bot_name_available_humans_only(accts, full_name) ==
    IF \E a \in accts : a.is_active /\ ~a.is_bot /\ a.full_name = full_name
    THEN NameInUse ELSE OK

\* check_bot_name_available: no active account of the realm has the name.
check_bot_name_available(accts, full_name) ==
    IF \E a \in accts : a.is_active /\ a.full_name = full_name THEN NameInUse ELSE OK

\* A check_can_create_bot that lets every caller create a bot of a known type.
check_can_create_bot_anyone(env, bot_type) ==
    IF bot_type \notin
            {DEFAULT_BOT, INCOMING_WEBHOOK_BOT, OUTGOING_WEBHOOK_BOT, EMBEDDED_BOT}
    THEN "JsonableError: Invalid bot type"
    ELSE OK

\* check_can_create_bot and check_valid_bot_type, by what the settings let
\* the caller do.
check_can_create_bot(env, bot_type) ==
    IF ~env.can_create_bots THEN "JsonableError: Insufficient permission"
    ELSE IF bot_type \notin
            {DEFAULT_BOT, INCOMING_WEBHOOK_BOT, OUTGOING_WEBHOOK_BOT, EMBEDDED_BOT}
    THEN "JsonableError: Invalid bot type"
    ELSE OK

check_valid_interface_type(interface_type) ==
    IF interface_type = InvalidInterface THEN "JsonableError: Invalid interface type" ELSE OK

check_valid_bot_config(config_data) ==
    IF config_data = InvalidConfig THEN "JsonableError: Invalid config data" ELSE OK

BotAccount(email, full_name, bot_type, owner, avatar_source) ==
    [delivery_email |-> email, full_name |-> full_name, is_bot |-> TRUE,
     is_active |-> TRUE, bot_type |-> bot_type, bot_owner |-> owner,
     avatar_source |-> avatar_source]

\* What a request leaves behind: the rows, the error raised, the actions
\* called and the account created.
BotResult(accts, svcs, cfg, err, calls, created) ==
    [accounts |-> accts, services |-> svcs, bot_config |-> cfg, err |-> err,
     calls |-> calls, created |-> created]

BotRefused(accts, svcs, cfg, err) == BotResult(accts, svcs, cfg, err, {}, None)

\* A file count check that takes the first file of several.
request_avatar_source_first_file(files) ==
    IF files = 0 THEN AVATAR_FROM_GRAVATAR ELSE AVATAR_FROM_USER

\* The avatar source by len(request.FILES), or the error raised.
request_avatar_source(files) ==
    IF files = 0 THEN AVATAR_FROM_GRAVATAR
    ELSE IF files # 1 THEN OneFileAtATime
    ELSE AVATAR_FROM_USER

\* set_bot_config calls that leave out the config_data of incoming webhook
\* bots.
bot_config_calls_embedded_only(bot_type, service_name, config_data) ==
    (IF bot_type = INCOMING_WEBHOOK_BOT /\ service_name # None
     THEN {<<"set_bot_config", "integration_id", service_name>>} ELSE {})
    \cup (IF bot_type = EMBEDDED_BOT
          THEN {<<"set_bot_config", kv[1], kv[2]>> : kv \in config_data} ELSE {})

\* The set_bot_config calls made for the bot created: the integration of an
\* incoming webhook bot, then the pairs of config_data.
bot_config_calls(bot_type, service_name, config_data) ==
    (IF bot_type = INCOMING_WEBHOOK_BOT /\ service_name # None
     THEN {<<"set_bot_config", "integration_id", service_name>>} ELSE {})
    \cup (IF bot_type \in {INCOMING_WEBHOOK_BOT, EMBEDDED_BOT}
          THEN {<<"set_bot_config", kv[1], kv[2]>> : kv \in config_data} ELSE {})

\* The writes of add_bot_backend once every check has passed.
create_bot(env, accts, svcs, cfg, caller, req, email, full_name, service_name, config_data) ==
    LET avatar_source == request_avatar_source(req.files)
        bot_profile == BotAccount(email, full_name, req.bot_type, caller, avatar_source)
        with_service == req.bot_type \in {OUTGOING_WEBHOOK_BOT, EMBEDDED_BOT}
        set_calls == bot_config_calls(req.bot_type, service_name, config_data)
    IN  BotResult(
            accts \cup {bot_profile},
            IF with_service
            THEN svcs \cup {[bot |-> email, name |-> service_name,
                             interface |-> req.interface_type]}
            ELSE svcs,
            cfg \cup {<<email, c[2], c[3]>> : c \in set_calls},
            OK,
            {<<"do_create_user">>, <<"notify_created_bot">>}
                \cup (IF req.files = 1 THEN {<<"upload_avatar_image">>} ELSE {})
                \cup (IF with_service THEN {<<"add_service">>} ELSE {})
                \cup set_calls,
            bot_profile)

\* env: whether the fake email domain is configured, whether
\* EMBEDDED_BOTS_ENABLED is set and whether the caller may create bots.
add_bot_backend(env, accts, svcs, cfg, caller, req) ==
    \* config_data is None: config_data = {}
    LET config_data == req.config_data IN
    \* check_short_name
    IF req.short_name_raw = BlankName THEN BotRefused(accts, svcs, cfg, BadName) ELSE
    LET service_name ==
            IF req.bot_type # INCOMING_WEBHOOK_BOT /\ req.service_name = None
            THEN req.short_name_raw ELSE req.service_name
        short_name == req.short_name_raw \o "-bot"
    IN
    \* check_full_name
    IF req.full_name_raw = InvalidName
    THEN BotRefused(accts, svcs, cfg, "JsonableError: Invalid characters in name!") ELSE
    LET full_name == req.full_name_raw IN
    IF ~env.fake_email_domain_configured
    THEN BotRefused(accts, svcs, cfg, FakeEmailDomainError) ELSE
    LET email == addr_spec(short_name, BotDomain) IN
    IF req.bot_type = EMBEDDED_BOT /\ ~env.embedded_bots_enabled
    THEN BotRefused(accts, svcs, cfg, EmbeddedBotsDisabled) ELSE
    IF req.bot_type = EMBEDDED_BOT /\ service_name \notin EMBEDDED_BOTS
    THEN BotRefused(accts, svcs, cfg, InvalidEmbeddedBotName) ELSE
    IF email_in_use(accts, email)
    THEN BotRefused(accts, svcs, cfg, EmailAlreadyInUseError) ELSE
    LET name_check == check_bot_name_available(accts, full_name) IN
    IF name_check # OK THEN BotRefused(accts, svcs, cfg, name_check) ELSE
    LET may == check_can_create_bot(env, req.bot_type) IN
    IF may # OK THEN BotRefused(accts, svcs, cfg, may) ELSE
    LET interface == check_valid_interface_type(req.interface_type) IN
    IF interface # OK THEN BotRefused(accts, svcs, cfg, interface) ELSE
    IF request_avatar_source(req.files) = OneFileAtATime
    THEN BotRefused(accts, svcs, cfg, OneFileAtATime) ELSE
    \* access_stream_by_name
    IF req.streams = "inaccessible"
    THEN BotRefused(accts, svcs, cfg, "JsonableError: Invalid channel name") ELSE
    LET config_check ==
            IF req.bot_type \in {INCOMING_WEBHOOK_BOT, EMBEDDED_BOT} /\ service_name # None
            THEN check_valid_bot_config(config_data) ELSE OK IN
    IF config_check # OK THEN BotRefused(accts, svcs, cfg, config_check) ELSE
    create_bot(env, accts, svcs, cfg, caller, req, email, full_name, service_name, config_data)

(***************************************************************************)
(* forms.py: CaptchaRealmCreationForm.clean_captcha.                       *)
(***************************************************************************)
\* Challenges the antispam endpoint issues to one session, at most.
MaxChallenges == 3

ChallengeIds == 1 .. MaxChallenges
CaptchaFailed == "ValidationError: Validation failed, please try again."
CaptchaDisabled == "ValidationError: Challenges are not enabled."

\* The captcha field: the challenge a payload decodes to, and whether the
\* payload carries a correct, signed solution of it.
Payloads == [challenge : ChallengeIds, solved : BOOLEAN]

\* altcha.verify_solution with check_expires: it accepts, refuses (a wrong or
\* expired solution) or raises; it accepts only a correct solution.
VerifierAnswers(payload) ==
    (IF payload.solved THEN {"ok"} ELSE {}) \cup {"refused", "raised"}

\* The entries of session["altcha_challenges"] are (challenge, expires) pairs.
SessionEntry(c) == <<c, "expires">>

\* A removal that removes nothing.
without_challenge_keeps_all(entries, challenge) == entries

\* [e for e in altcha_challenges if e[0] != challenge]
\* A removal that also drops every entry after the challenge's.
RECURSIVE without_challenge_and_later(_, _)
without_challenge_and_later(entries, challenge) ==
    IF entries = <<>> THEN <<>>
    ELSE IF Head(entries)[1] # challenge
         THEN <<Head(entries)>> \o without_challenge_and_later(Tail(entries), challenge)
         ELSE <<>>

RECURSIVE without_challenge(_, _)
without_challenge(entries, challenge) ==
    IF entries = <<>> THEN <<>>
    ELSE IF Head(entries)[1] # challenge
         THEN <<Head(entries)>> \o without_challenge(Tail(entries), challenge)
         ELSE without_challenge(Tail(entries), challenge)

CaptchaResult(session, err) == [session |-> session, err |-> err]

\* A clean_captcha that returns the payload without touching the session.
clean_captcha_keeps_session(session, payload, answer, enabled) ==
    IF ~enabled THEN CaptchaResult(session, CaptchaDisabled)
    ELSE IF answer # "ok" THEN CaptchaResult(session, CaptchaFailed)
    ELSE IF payload.challenge \notin {session[i][1] : i \in DOMAIN session}
    THEN CaptchaResult(session, CaptchaFailed)
    ELSE CaptchaResult(session, OK)

\* enabled: USING_CAPTCHA and ALTCHA_HMAC_KEY are set.
clean_captcha(session, payload, answer, enabled) ==
    IF ~enabled THEN CaptchaResult(session, CaptchaDisabled)
    ELSE IF answer # "ok" THEN CaptchaResult(session, CaptchaFailed)
    ELSE LET session_challenges == {session[i][1] : i \in DOMAIN session} IN
         IF payload.challenge \notin session_challenges
         THEN CaptchaResult(session, CaptchaFailed)
         ELSE CaptchaResult(without_challenge(session, payload.challenge), OK)

(***************************************************************************)
(* forms.py: ZulipPasswordResetForm.save and its rate limiters.            *)
(***************************************************************************)
\* Requests a key may make within one window, by RATE_LIMITING_RULES.
EmailRateLimit == 1
IpRateLimit == 2
\* The longest wait a limiter reports.
MaxSecs == 2

Member == "member@example.com"
Colleague == "colleague@example.com"
LdapMember == "member@ldap.example.com"
Nobody == "nobody@example.com"
LdapNobody == "nobody@ldap.example.com"
ResetEmails == {Member, Colleague, LdapMember, Nobody, LdapNobody}
RemoteAddrs == {"10.0.0.1", "10.0.0.2"}

\* get_user_by_delivery_email finds an account of the realm.
HasAccount(email) == email \in {Member, Colleague, LdapMember}
\* email_belongs_to_ldap: the address is in the LDAP domain.
email_belongs_to_ldap(email) == email \in {LdapMember, LdapNobody}

RateLimitedError(secs) == [type |-> "RateLimitedError", secs_to_freedom |-> secs]
Returned == [type |-> OK, secs_to_freedom |-> 0]

\* RateLimitedObject.rate_limit: over the limit it reports the wait; under
\* it, it counts the request.
rate_limit(hits, key, limit, secs) ==
    IF hits[key] >= limit
    THEN [ratelimited |-> TRUE, secs_to_freedom |-> secs, hits |-> hits]
    ELSE [ratelimited |-> FALSE, secs_to_freedom |-> 0,
          hits |-> [hits EXCEPT ![key] = @ + 1]]

SaveResult(lim, err, calls, consulted) ==
    [email_hits |-> lim.email_hits, ip_hits |-> lim.ip_hits, err |-> err,
     calls |-> calls, consulted |-> consulted]

\* rate_limit_password_reset_form_by_email, then rate_limit_request_by_ip.
\* The two limiters consulted in the other order.
rate_limit_password_reset_ip_first(lim, email, ip, secs) ==
    LET by_ip == rate_limit(lim.ip_hits, ip, IpRateLimit, secs) IN
    IF by_ip.ratelimited
    THEN SaveResult(lim, RateLimitedError(by_ip.secs_to_freedom), {}, <<"ip">>)
    ELSE LET by_email == rate_limit(lim.email_hits, email, EmailRateLimit, secs)
             counted == [email_hits |-> by_email.hits, ip_hits |-> by_ip.hits] IN
         IF by_email.ratelimited
         THEN SaveResult(counted, RateLimitedError(by_email.secs_to_freedom), {},
                         <<"ip", "email">>)
         ELSE SaveResult(counted, Returned, {}, <<"ip", "email">>)

rate_limit_password_reset(lim, email, ip, secs) ==
    LET by_email == rate_limit(lim.email_hits, email, EmailRateLimit, secs) IN
    IF by_email.ratelimited
    THEN SaveResult(lim, RateLimitedError(by_email.secs_to_freedom), {}, <<"email">>)
    ELSE LET by_ip == rate_limit(lim.ip_hits, ip, IpRateLimit, secs)
             counted == [email_hits |-> by_email.hits, ip_hits |-> by_ip.hits] IN
         IF by_ip.ratelimited
         THEN SaveResult(counted, RateLimitedError(by_ip.secs_to_freedom), {},
                         <<"email", "ip">>)
         ELSE SaveResult(counted, Returned, {}, <<"email", "ip">>)

\* A save that asks the rate limiters before it looks at the realm.
save_limits_first(realm, lim, email, ip, secs) ==
    LET limited == IF realm.rate_limiting
                   THEN rate_limit_password_reset(lim, email, ip, secs)
                   ELSE SaveResult(lim, Returned, {}, <<>>) IN
    IF limited.err # Returned THEN limited
    ELSE IF ~realm.email_auth_enabled \/ email_belongs_to_ldap(email) \/ realm.deactivated
    THEN limited
    ELSE SaveResult(limited, Returned, {"do_send_password_reset_email"},
                    limited.consulted)

\* A save that lets the failed account lookup through.
save_lookup_raises(realm, lim, email, ip, secs) ==
    IF ~realm.email_auth_enabled THEN SaveResult(lim, Returned, {}, <<>>)
    ELSE IF email_belongs_to_ldap(email) THEN SaveResult(lim, Returned, {}, <<>>)
    ELSE IF realm.deactivated THEN SaveResult(lim, Returned, {}, <<>>)
    ELSE LET limited == IF realm.rate_limiting
                        THEN rate_limit_password_reset(lim, email, ip, secs)
                        ELSE SaveResult(lim, Returned, {}, <<>>) IN
         IF limited.err # Returned THEN limited
         ELSE IF ~HasAccount(email)
         THEN SaveResult(limited, [type |-> "UserProfile.DoesNotExist",
                                   secs_to_freedom |-> 0], {}, limited.consulted)
         ELSE SaveResult(limited, Returned, {"do_send_password_reset_email"},
                         limited.consulted)

\* A save that logs the RateLimitedError and goes on.
save_swallows_rate_limit(realm, lim, email, ip, secs) ==
    IF ~realm.email_auth_enabled THEN SaveResult(lim, Returned, {}, <<>>)
    ELSE IF email_belongs_to_ldap(email) THEN SaveResult(lim, Returned, {}, <<>>)
    ELSE IF realm.deactivated THEN SaveResult(lim, Returned, {}, <<>>)
    ELSE LET limited == IF realm.rate_limiting
                        THEN rate_limit_password_reset(lim, email, ip, secs)
                        ELSE SaveResult(lim, Returned, {}, <<>>) IN
         SaveResult(limited, Returned, {"do_send_password_reset_email"},
                    limited.consulted)

\* realm: what email_auth_enabled(realm), realm.deactivated and
\* settings.RATE_LIMITING say; lim: the limiters' counts.
save(realm, lim, email, ip, secs) ==
    IF ~realm.email_auth_enabled THEN SaveResult(lim, Returned, {}, <<>>)
    ELSE IF email_belongs_to_ldap(email) THEN SaveResult(lim, Returned, {}, <<>>)
    ELSE IF realm.deactivated THEN SaveResult(lim, Returned, {}, <<>>)
    ELSE LET limited == IF realm.rate_limiting
                        THEN rate_limit_password_reset(lim, email, ip, secs)
                        ELSE SaveResult(lim, Returned, {}, <<>>) IN
         IF limited.err # Returned THEN limited
         \* user is the account or None; the email is sent either way.
         ELSE SaveResult(limited, Returned, {"do_send_password_reset_email"},
                         limited.consulted)

(***************************************************************************)
(* forms.py: check_subdomain_available.                                    *)
(***************************************************************************)
\* The longest candidate tried.
MaxSubdomainLength == 4

\* Characters of a candidate: a lowercase letter, a digit, the dash, an
\* uppercase letter, an underscore and the line feed.
Lowercase == {"w"}
Digits == {"7"}
Dash == "-"
LineFeed == "\n"
Characters == Lowercase \cup Digits \cup {Dash, "W", "_", LineFeed}

\* A subdomain is the sequence of its characters.
Candidates == UNION {[1 .. n -> Characters] : n \in 0 .. MaxSubdomainLength}

SUBDOMAIN_FOR_ROOT_DOMAIN == <<>>
\* is_reserved_subdomain: "www" stands for the reserved names.
is_reserved_subdomain(subdomain) == subdomain = <<"w", "w", "w">>

\* re.match of ^[a-z0-9-]{least,}$ : Python's $ also matches before a line
\* feed that ends the string.
re_match_subdomain(subdomain, least) ==
    LET body == IF subdomain # <<>> /\ subdomain[Len(subdomain)] = LineFeed
                THEN {SubSeq(subdomain, 1, Len(subdomain) - 1), subdomain}
                ELSE {subdomain}
    IN  \E b \in body :
            /\ Len(b) >= least
            /\ \A i \in DOMAIN b : b[i] \in Lowercase \cup Digits \cup {Dash}

\* is_root_domain_available: no realm has the root domain's string_id.
is_root_domain_available(realms) == SUBDOMAIN_FOR_ROOT_DOMAIN \notin realms

\* The class of the error raised under a key of error_strings.
ErrorClass(key) ==
    IF key = "reserved" THEN "OverridableValidationError" ELSE "ValidationError"

\* What check_subdomain_available logs or warns of: it has no statement that
\* does either, whatever its arguments.
check_subdomain_available_warnings(subdomain, allow_reserved_subdomain, realms) == {}

\* A check_subdomain_available that refuses a reserved name whatever the
\* flag says.
check_subdomain_available_no_override(subdomain, allow_reserved_subdomain, realms) ==
    IF subdomain = SUBDOMAIN_FOR_ROOT_DOMAIN
    THEN IF is_root_domain_available(realms) THEN OK ELSE "unavailable"
    ELSE IF subdomain[1] = Dash \/ subdomain[Len(subdomain)] = Dash THEN "extremal dash"
    ELSE IF ~re_match_subdomain(subdomain, 0) THEN "bad character"
    ELSE IF Len(subdomain) < 3 THEN "too short"
    ELSE IF subdomain \in realms THEN "unavailable"
    ELSE IF is_reserved_subdomain(subdomain) THEN "reserved"
    ELSE OK

\* A check_subdomain_available that refuses a length of 3 as too short.
check_subdomain_available_off_by_one(subdomain, allow_reserved_subdomain, realms) ==
    IF subdomain = SUBDOMAIN_FOR_ROOT_DOMAIN
    THEN IF is_root_domain_available(realms) THEN OK ELSE "unavailable"
    ELSE IF subdomain[1] = Dash \/ subdomain[Len(subdomain)] = Dash THEN "extremal dash"
    ELSE IF ~re_match_subdomain(subdomain, 0) THEN "bad character"
    ELSE IF Len(subdomain) <= 3 THEN "too short"
    ELSE IF subdomain \in realms THEN "unavailable"
    ELSE IF is_reserved_subdomain(subdomain) /\ ~allow_reserved_subdomain THEN "reserved"
    ELSE OK

\* A check_subdomain_available that puts the root domain through the length
\* check as well.
check_subdomain_available_sentinel_checked(subdomain, allow_reserved_subdomain, realms) ==
    IF subdomain = SUBDOMAIN_FOR_ROOT_DOMAIN /\ ~is_root_domain_available(realms)
    THEN "unavailable"
    ELSE IF subdomain # <<>> /\ (subdomain[1] = Dash \/ subdomain[Len(subdomain)] = Dash)
    THEN "extremal dash"
    ELSE IF ~re_match_subdomain(subdomain, 0) THEN "bad character"
    ELSE IF Len(subdomain) < 3 THEN "too short"
    ELSE IF subdomain \in realms THEN "unavailable"
    ELSE IF is_reserved_subdomain(subdomain) /\ ~allow_reserved_subdomain THEN "reserved"
    ELSE OK

\* realms: the string_id of every Realm; the answer is OK or the key of the
\* error raised.
check_subdomain_available(subdomain, allow_reserved_subdomain, realms) ==
    IF subdomain = SUBDOMAIN_FOR_ROOT_DOMAIN
    THEN IF is_root_domain_available(realms) THEN OK ELSE "unavailable"
    ELSE IF subdomain[1] = Dash \/ subdomain[Len(subdomain)] = Dash THEN "extremal dash"
    ELSE IF ~re_match_subdomain(subdomain, 0) THEN "bad character"
    ELSE IF Len(subdomain) < 3 THEN "too short"
    ELSE IF subdomain \in realms THEN "unavailable"
    ELSE IF is_reserved_subdomain(subdomain) /\ ~allow_reserved_subdomain THEN "reserved"
    ELSE OK

(***************************************************************************)
(* OurAuthenticationForm.clean.  authenticate() is given by its outcomes:  *)
(* it raises RateLimitedError, or returns a user or None and leaves flags  *)
(* in return_data.                                                         *)
(***************************************************************************)
INVALID_ACCOUNT_CREDENTIALS_ERROR == "Incorrect email or password."
DEACTIVATED_ACCOUNT_ERROR ==
    "Your account {username} has been deactivated. Please contact your organization administrator to reactivate it."
TooManyAttempts ==
    "You're making too many attempts to sign in. Try again in {seconds} seconds or contact your organization administrator for help."
PasswordDisabled ==
    "Your password has been disabled because it is too weak. Reset your password to create a new one."
InactiveRealmAssertion == "Programming error: inactive realm in authentication form"
InactiveLogin == "This account is inactive."

\* What the client is shown: nothing, or the error raised with what was
\* formatted into its message.
Shown(kind, message, username, seconds) ==
    [kind |-> kind, message |-> message, username |-> username, seconds |-> seconds]
NoError == Shown("ok", "", "", 0)

\* Ids of accounts of other realms that match the username.
OtherRealmUserIds == {7, 8}
\* secs_to_freedom of a RateLimitedError, in tenths of a second.
SecsToFreedomTenths == {5, 15}

NoFlags ==
    [inactive_realm |-> FALSE, password_reset_needed |-> FALSE,
     inactive_user |-> FALSE, is_mirror_dummy |-> FALSE,
     invalid_subdomain |-> FALSE, matching_user_ids_in_different_realms |-> {}]

Outcome(raised, tenths, user, active, return_data) ==
    [raised |-> raised, secs_to_freedom |-> tenths, user_cache |-> user,
     user_is_active |-> active, return_data |-> return_data]

\* authenticate() found no account and said nothing more.
NoUserResolved == Outcome(FALSE, 0, NoUser, FALSE, NoFlags)

\* What authenticate() does: it raises RateLimitedError; it returns a user
\* and sets no flag; it returns None with flags about the account of this
\* realm; or it returns None with invalid_subdomain and the ids of the
\* matching accounts of other realms, there being no account in this realm.
AuthOutcomes ==
    {Outcome(TRUE, t, NoUser, FALSE, NoFlags) : t \in SecsToFreedomTenths}
    \cup {Outcome(FALSE, 0, u, a, NoFlags) : u \in Humans, a \in BOOLEAN}
    \cup {Outcome(FALSE, 0, NoUser, FALSE,
                  [NoFlags EXCEPT !.inactive_realm = f[1],
                                  !.password_reset_needed = f[2],
                                  !.inactive_user = f[3],
                                  !.is_mirror_dummy = f[4]]) :
              f \in BOOLEAN \X BOOLEAN \X BOOLEAN \X BOOLEAN}
    \cup {Outcome(FALSE, 0, NoUser, FALSE,
                  [NoFlags EXCEPT !.invalid_subdomain = TRUE,
                                  !.matching_user_ids_in_different_realms = ids]) :
              ids \in SUBSET OtherRealmUserIds \ {{}}}

LoginUsernames == {None, "hamlet@zulip.com"}
LoginPasswords == {"", "secret"}
LoginSubdomains == {"", "zephyr"}

\* AuthenticationForm.confirm_login_allowed: an inactive user may not log in.
confirm_login_allowed(active) ==
    IF active THEN NoError ELSE Shown("ValidationError", InactiveLogin, "", 0)

\* The line logged for a login to the wrong subdomain.
WrongSubdomainLine(subdomain, ids) ==
    [message |-> "User attempted password login to wrong subdomain %s. Matching accounts: %s",
     subdomain |-> subdomain, ids |-> ids]

LoginResult(shown, logged, called) == [shown |-> shown, logged |-> logged, called |-> called]

\* A clean() that tells the client of the accounts on other subdomains.
OurAuthenticationForm_clean_telling(username, password, subdomain, outcome) ==
    IF username = None \/ password = "" THEN LoginResult(NoError, <<>>, FALSE) ELSE
    IF outcome.return_data.invalid_subdomain
    THEN LoginResult(Shown("ValidationError", "Your account is on another subdomain.", "", 0),
                     <<WrongSubdomainLine(subdomain,
                          outcome.return_data.matching_user_ids_in_different_realms)>>,
                     TRUE)
    ELSE LoginResult(Shown("ValidationError", INVALID_ACCOUNT_CREDENTIALS_ERROR, "", 0),
                     <<>>, TRUE)

\* OurAuthenticationForm.clean
OurAuthenticationForm_clean(username, password, subdomain, outcome) ==
    IF username = None \/ password = "" THEN LoginResult(NoError, <<>>, FALSE) ELSE
    LET return_data == outcome.return_data IN
    IF outcome.raised
    THEN LoginResult(Shown("ValidationError", TooManyAttempts, "",
                           outcome.secs_to_freedom \div 10), <<>>, TRUE) ELSE
    IF return_data.inactive_realm
    THEN LoginResult(Shown("AssertionError", InactiveRealmAssertion, "", 0), <<>>, TRUE) ELSE
    IF return_data.password_reset_needed
    THEN LoginResult(Shown("ValidationError", PasswordDisabled, "", 0), <<>>, TRUE) ELSE
    IF return_data.inactive_user /\ ~return_data.is_mirror_dummy
    THEN LoginResult(Shown("ValidationError", DEACTIVATED_ACCOUNT_ERROR, username, 0),
                     <<>>, TRUE) ELSE
    LET logged == IF return_data.invalid_subdomain
                  THEN <<WrongSubdomainLine(subdomain,
                            return_data.matching_user_ids_in_different_realms)>>
                  ELSE <<>> IN
    IF return_data.invalid_subdomain /\ outcome.user_cache # NoUser
    THEN LoginResult(Shown("AssertionError", "", "", 0), logged, TRUE) ELSE
    IF outcome.user_cache = NoUser
    THEN LoginResult(Shown("ValidationError", INVALID_ACCOUNT_CREDENTIALS_ERROR, "", 0),
                     logged, TRUE)
    ELSE LoginResult(confirm_login_allowed(outcome.user_is_active), logged, TRUE)

(***************************************************************************)
(* RegistrationForm: the fields its constructor leaves it with and what    *)
(* is_valid() finds in the data bound to it.  The optional fields that     *)
(* raise nothing for the data kept here (is_demo_organization,             *)
(* enable_marketing_emails, email_address_visibility and the four          *)
(* how_realm_creator_found_zulip_* texts) are left out.                    *)
(***************************************************************************)
MAX_REALM_SUBDOMAIN_LENGTH == 40
ORG_TYPES == {"10", "20"}
LanguageCodes == {"en", "de"}
HOW_REALM_CREATOR_FOUND_ZULIP_OPTIONS == {"ad"}

RealmFields ==
    {"realm_name", "realm_type", "realm_default_language",
     "how_realm_creator_found_zulip"}

\* The fields of the form: terms is there when TERMS_OF_SERVICE_VERSION is
\* set.
RegistrationForm_fields(form) ==
    {"realm_subdomain", "full_name", "password"} \cup RealmFields
    \cup (IF form.terms_of_service THEN {"terms"} ELSE {})

\* required= as RealmDetailsForm declares the fields, whatever realm_creation.
RealmDetailsForm_required(form, field) ==
    IF field = "realm_subdomain" THEN FALSE
    ELSE IF field = "password" THEN form.password_required
    ELSE TRUE

\* required= of each field after RegistrationForm.__init__ (and after the
\* view has said whether the realm needs a password).
RegistrationForm_required(form, field) ==
    IF field = "realm_subdomain" THEN FALSE
    ELSE IF field \in RealmFields THEN form.realm_creation
    ELSE IF field = "password" THEN form.password_required
    ELSE TRUE

\* CharField strips the value: "   " stands for the values of spaces only.
Strip(value) == IF value = "   " THEN "" ELSE value

\* Field.clean of a CharField within its max_length
CharField_clean(required, value) ==
    IF Strip(value) = "" /\ required THEN "required" ELSE OK

\* Field.clean of a ChoiceField or TypedChoiceField
ChoiceField_clean(required, choices, value) ==
    IF value = "" THEN (IF required THEN "required" ELSE OK)
    ELSE IF value \notin choices THEN "invalid_choice"
    ELSE OK

\* Field.clean of a BooleanField
BooleanField_clean(required, value) ==
    IF required /\ ~value THEN "required" ELSE OK

\* The realm_subdomain field, then clean_realm_subdomain
clean_realm_subdomain(form, realms, data) ==
    IF Len(data.realm_subdomain) > MAX_REALM_SUBDOMAIN_LENGTH THEN "max_length"
    ELSE IF data.realm_subdomain = <<>> /\ RegistrationForm_required(form, "realm_subdomain")
    THEN "required"
    ELSE IF ~form.realm_creation THEN OK
    ELSE LET subdomain == IF data.realm_in_root_domain
                          THEN SUBDOMAIN_FOR_ROOT_DOMAIN
                          ELSE data.realm_subdomain
         IN  check_subdomain_available(subdomain, FALSE, realms)

\* The full_name field, then clean_full_name
clean_full_name(form, data) ==
    LET field == CharField_clean(RegistrationForm_required(form, "full_name"),
                                 data.full_name) IN
    IF field # OK THEN field
    ELSE IF data.full_name = InvalidName THEN "invalid"
    ELSE OK

PASSWORD_TOO_WEAK_ERROR == "The password is too weak."

\* The passwords check_password_strength refuses: one for its length, one
\* for the guesses it takes.
WeakPasswords == {"weak", "password1234"}

\* check_password_strength
check_password_strength(password) == password \notin WeakPasswords \cup {""}

\* A clean_password that checks the strength whether or not the field is
\* required.
clean_password_always_checked(form, data) ==
    LET required == RegistrationForm_required(form, "password")
        field == CharField_clean(required, data.password) IN
    IF field # OK THEN field
    ELSE IF ~check_password_strength(data.password) THEN PASSWORD_TOO_WEAK_ERROR
    ELSE OK

\* The password field, then clean_password
clean_password(form, data) ==
    LET required == RegistrationForm_required(form, "password")
        field == CharField_clean(required, data.password) IN
    IF field # OK THEN field
    ELSE IF required /\ ~check_password_strength(data.password) THEN PASSWORD_TOO_WEAK_ERROR
    ELSE OK

\* What the cleaning of one field raises.
RegistrationForm_clean_field(form, realms, data, field) ==
    CASE field = "realm_subdomain" -> clean_realm_subdomain(form, realms, data)
      [] field = "full_name" -> clean_full_name(form, data)
      [] field = "password" -> clean_password(form, data)
      [] field = "realm_name" ->
             CharField_clean(RegistrationForm_required(form, field), data.realm_name)
      [] field = "realm_type" ->
             ChoiceField_clean(RegistrationForm_required(form, field), ORG_TYPES,
                               data.realm_type)
      [] field = "realm_default_language" ->
             ChoiceField_clean(RegistrationForm_required(form, field), LanguageCodes,
                               data.realm_default_language)
      [] field = "how_realm_creator_found_zulip" ->
             ChoiceField_clean(RegistrationForm_required(form, field),
                               HOW_REALM_CREATOR_FOUND_ZULIP_OPTIONS,
                               data.how_realm_creator_found_zulip)
      [] field = "terms" ->
             BooleanField_clean(RegistrationForm_required(form, field), data.terms)

\* form.errors: the fields that raised, each with the code of its error.
RegistrationForm_errors(form, realms, data) ==
    {fe \in {<<field, RegistrationForm_clean_field(form, realms, data, field)>> :
                 field \in RegistrationForm_fields(form)} : fe[2] # OK}

(***************************************************************************)
(* HomepageForm.clean_email and the check of mit.edu addresses.  The DNS   *)
(* resolver, email_allowed_for_realm and the license check are given by    *)
(* their outcomes.                                                         *)
(***************************************************************************)
MIT_VALIDATION_ERROR == "That user does not exist at MIT or is a mailing list."
NoSuchRealm == "The organization you are trying to join using {email} does not exist."
InviteRequired == "Please request an invite for {email} from the organization administrator."
PasswordAuthDisabled ==
    "Can't join the organization: password authentication is not enabled."
DomainNotAllowed == "Your email address, {email}, is not in one of the domains that are allowed"
UseRealAddress == "Please use your real email address."
PlusNotAllowed == "Email addresses containing + are not allowed in this organization."
LicensesInUse == "New members cannot join this organization because all Zulip licenses are in use."

\* What dns.resolver.resolve does: it returns an answer, or raises NXDOMAIN
\* or another of its exceptions.
DnsAnswer == "answer"
NXDOMAIN == "dns.resolver.NXDOMAIN"
OtherDnsErrors ==
    {"dns.resolver.NoAnswer", "dns.resolver.LifetimeTimeout", "dns.resolver.NoNameservers"}
DnsOutcomes == {DnsAnswer, NXDOMAIN} \cup OtherDnsErrors

\* email_allowed_for_realm: it returns or raises one of three errors.
AllowedOutcomes ==
    {OK, "DomainNotAllowedForRealmError", "DisposableEmailError", "EmailContainsPlusError"}

HomepageEmails ==
    {[username |-> "alice", domain |-> "mit.edu"],
     [username |-> "sipb-list", domain |-> "mit.edu"],
     [username |-> "bob", domain |-> "example.com"]}

\* How a validator ends: it returns, raises a ValidationError with a
\* message, or lets another exception through.
Returns == [kind |-> "ok", message |-> ""]
Raises(kind, message) == [kind |-> kind, message |-> message]

\* email_is_not_mit_mailing_list: only NXDOMAIN is caught.
email_is_not_mit_mailing_list(email, dns) ==
    IF email.domain = "mit.edu"
    THEN IF dns = NXDOMAIN THEN Raises("ValidationError", MIT_VALIDATION_ERROR)
         ELSE IF dns # DnsAnswer THEN Raises("Exception", dns)
         ELSE Returns
    ELSE Returns

\* HomepageForm.clean_email
HomepageForm_clean_email(form, email, allowed, dns, licenses_left) ==
    IF ~form.realm_exists THEN Raises("ValidationError", NoSuchRealm) ELSE
    IF ~form.from_multiuse_invite /\ form.invite_required
    THEN Raises("ValidationError", InviteRequired) ELSE
    IF /\ ~form.from_multiuse_invite
       /\ form.require_password_backend /\ ~form.password_auth_enabled
    THEN Raises("ValidationError", PasswordAuthDisabled) ELSE
    IF allowed = "DomainNotAllowedForRealmError"
    THEN Raises("ValidationError", DomainNotAllowed) ELSE
    IF allowed = "DisposableEmailError" THEN Raises("ValidationError", UseRealAddress) ELSE
    IF allowed = "EmailContainsPlusError" THEN Raises("ValidationError", PlusNotAllowed) ELSE
    LET mit == IF form.is_zephyr_mirror_realm
               THEN email_is_not_mit_mailing_list(email, dns)
               ELSE Returns IN
    IF mit # Returns THEN mit ELSE
    IF form.billing_enabled /\ ~licenses_left
    THEN Raises("ValidationError", LicensesInUse)
    ELSE Returns

(***************************************************************************)
(* The avatar endpoints.  The requester is a user of the realm or the      *)
(* AnonymousUser of a spectator; the spectator rate limiter is given by    *)
(* its answer.                                                             *)
(***************************************************************************)
AnonymousUser == "AnonymousUser"
\* A member, who can access every user, and a guest, who cannot access
\* user 2.
AvatarRequesters == {AnonymousUser, "member", "guest"}
is_authenticated(requester) == requester # AnonymousUser
check_can_access_user(target, requester) == ~(requester = "guest" /\ target = 2)

AvatarUserIds == Humans \cup {MissingUser}
AvatarEmails == {EmailOf[i] : i \in Humans} \cup {SpareEmail}
QueryStrings == {"", "s=50"}

MissingAuthenticationError == "MissingAuthenticationError"

\* The URLs computed: the avatar of a user, the avatar shown for a user
\* that cannot be accessed, and the gravatar of an address.
avatar_url(user, medium) == [of |-> "user", whose |-> EmailOf[user], medium |-> medium]
get_avatar_for_inaccessible_user == [of |-> "inaccessible", whose |-> "", medium |-> FALSE]
get_gravatar_url(email, medium) == [of |-> "gravatar", whose |-> email, medium |-> medium]

redirect(url, query) == [kind |-> "redirect", url |-> url, query |-> query]
AvatarRaises(error) ==
    [kind |-> error, url |-> get_avatar_for_inaccessible_user, query |-> ""]

\* An avatar_by_email that serves spectators as avatar_by_id does.
avatar_by_email_for_spectators(realm, requester, email, medium, query, limited) ==
    IF ~is_authenticated(requester) /\ ~realm.web_public
    THEN AvatarRaises(MissingAuthenticationError) ELSE
    IF \E i \in Humans : EmailOf[i] = email
    THEN LET target == CHOOSE i \in Humans : EmailOf[i] = email IN
         IF ~check_can_access_user(target, requester)
         THEN redirect(get_avatar_for_inaccessible_user, query)
         ELSE redirect(avatar_url(target, medium), query)
    ELSE redirect(get_gravatar_url(email, medium), query)

\* avatar_by_id
avatar_by_id(realm, requester, user_id, medium, query, limited) ==
    IF ~is_authenticated(requester) /\ ~realm.web_public
    THEN AvatarRaises(MissingAuthenticationError) ELSE
    IF ~is_authenticated(requester) /\ realm.rate_limiting /\ limited
    THEN AvatarRaises("RateLimitedError") ELSE
    IF user_id \in Humans
    THEN IF is_authenticated(requester) /\ ~check_can_access_user(user_id, requester)
         THEN redirect(get_avatar_for_inaccessible_user, query)
         ELSE redirect(avatar_url(user_id, medium), query)
    ELSE redirect(get_avatar_for_inaccessible_user, query)

\* avatar_by_email
avatar_by_email(realm, requester, email, medium, query, limited) ==
    IF ~is_authenticated(requester) THEN AvatarRaises(MissingAuthenticationError) ELSE
    IF \E i \in Humans : EmailOf[i] = email
    THEN LET target == CHOOSE i \in Humans : EmailOf[i] = email IN
         IF ~check_can_access_user(target, requester)
         THEN redirect(get_avatar_for_inaccessible_user, query)
         ELSE redirect(avatar_url(target, medium), query)
    ELSE redirect(get_gravatar_url(email, medium), query)

\* avatar_medium: by email if one is given, by id otherwise.
avatar_medium(realm, requester, email, user_id, query, limited) ==
    IF email # ""
    THEN avatar_by_email(realm, requester, email, TRUE, query, limited)
    ELSE avatar_by_id(realm, requester, user_id, TRUE, query, limited)

(***************************************************************************)
(* The realm and the requests made of it, one handled after the other.     *)
(***************************************************************************)
NoParams == [full_name |-> None, role |-> None]

NoRequest ==
    [op |-> "none", caller |-> NoUser, target |-> NoUser, req |-> NoParams,
     err |-> OK, calls |-> {}]

Handled(op, c, t, req, res) ==
    [op |-> op, caller |-> c, target |-> t, req |-> req,
     err |-> res.err, calls |-> res.calls]

UserProfile(i, role, active) ==
    [role |-> role, is_bot |-> i \in Bots, is_active |-> active,
     bot_owner_id |-> IF i \in Bots THEN 2 ELSE NoUser,
     full_name |-> InitialName, delivery_email |-> EmailOf[i],
     profile |-> NoValue, can_change_user_emails |-> i = 1]

\* A realm has an active human owner from its creation on.
UsersInit ==
    /\ \E roles \in [UserIds -> ROLE_TYPES], active \in [UserIds -> BOOLEAN] :
         /\ \E i \in Humans : roles[i] = ROLE_REALM_OWNER /\ active[i]
         /\ users = [i \in UserIds |-> UserProfile(i, roles[i], active[i])]
    /\ last = NoRequest

\* The session before any challenge was issued.
NoCaptchaCall == [payload |-> [challenge |-> 0, solved |-> FALSE], answer |-> "none", err |-> OK]
CaptchaIdle ==
    /\ altcha_challenges = <<>>
    /\ issued = 0
    /\ verified = [p \in Payloads |-> 0]
    /\ captcha_enabled = TRUE
    /\ captcha_last = NoCaptchaCall

\* The limiters before any request was counted.
NoSave == [email |-> None, ip |-> None, err |-> Returned, calls |-> {}, consulted |-> <<>>]
ResetIdle ==
    /\ realm_settings = [email_auth_enabled |-> TRUE, deactivated |-> FALSE,
                         rate_limiting |-> TRUE]
    /\ email_hits = [e \in ResetEmails |-> 0]
    /\ ip_hits = [a \in RemoteAddrs |-> 0]
    /\ reset_last = NoSave

Pending == "pending"
SubdomainIdle ==
    /\ candidate = SUBDOMAIN_FOR_ROOT_DOMAIN
    /\ allow_reserved = FALSE
    /\ existing_realms = {}
    /\ subdomain_result = Pending
    /\ subdomain_warnings = {}

\* The caller of add_bot_backend, a human of the realm.
BotCaller == "hamlet@example.com"
NoBotRequest ==
    [req |-> [bot_type |-> None], err |-> OK, calls |-> {}, created |-> None,
     before |-> {}]
BotsIdle ==
    /\ bot_settings = [fake_email_domain_configured |-> TRUE,
                       embedded_bots_enabled |-> TRUE, can_create_bots |-> TRUE]
    /\ accounts = {}
    /\ services = {}
    /\ bot_config = {}
    /\ bots_added = 0
    /\ bot_last = NoBotRequest

NoLogin ==
    [username |-> None, password |-> "", subdomain |-> "",
     outcome |-> NoUserResolved, shown |-> NoError, called |-> FALSE]
LoginIdle ==
    /\ login_log = <<>>
    /\ login_attempts = 0
    /\ login_last = NoLogin

NoSubmission == [submitted |-> FALSE]
RegistrationIdle ==
    /\ registration_form = [realm_creation |-> FALSE, terms_of_service |-> FALSE,
                            password_required |-> TRUE]
    /\ registration_last = NoSubmission

NoCleanEmail == [cleaned |-> FALSE]
HomepageIdle ==
    /\ homepage_form = [realm_exists |-> FALSE, invite_required |-> FALSE,
                        password_auth_enabled |-> FALSE,
                        is_zephyr_mirror_realm |-> FALSE,
                        from_multiuse_invite |-> FALSE,
                        require_password_backend |-> FALSE,
                        billing_enabled |-> FALSE]
    /\ homepage_last = NoCleanEmail

NoAvatarRequest == [endpoint |-> "none"]
AvatarIdle ==
    /\ avatar_realm = [web_public |-> FALSE, rate_limiting |-> FALSE]
    /\ avatar_last = NoAvatarRequest

\* The two requests that share the session.
Requests == {1, 2}
RaceIdle ==
    /\ race_payload = [challenge |-> 0, solved |-> FALSE]
    /\ race_pc = [r \in Requests |-> "done"]
    /\ race_session = [r \in Requests |-> <<>>]
    /\ race_result = [r \in Requests |-> "none"]
    /\ race_events = <<>>

NoConcRequest == [op |-> "none", caller |-> NoUser, target |-> NoUser, role |-> None]
ConcIdle ==
    /\ conc_req = [r \in Requests |-> NoConcRequest]
    /\ conc_pc = [r \in Requests |-> "done"]
    /\ conc_err = [r \in Requests |-> "none"]
    /\ conc_events = <<>>

RestIdle == HomepageIdle /\ AvatarIdle /\ RaceIdle /\ ConcIdle

InitUsers == UsersInit /\ CaptchaIdle /\ ResetIdle /\ SubdomainIdle /\ BotsIdle /\ LoginIdle /\ RegistrationIdle /\ RestIdle

\* Only an active user of the realm is authenticated as the caller.
Callers == {i \in UserIds : users[i].is_active}

RoleOnly(role, no_spare_license) ==
    [full_name |-> None, new_email |-> None,
     profile_data |-> [given |-> FALSE, entries |-> <<>>],
     role |-> role, no_spare_license |-> no_spare_license]

DeactivateUser ==
    \E c \in Callers, t \in UserIds, comment \in {None, "goodbye"} :
        LET res == deactivate_user_backend(users, c, t, comment) IN
        /\ users' = res.users
        /\ last' = Handled("deactivate_user_backend", c, t, NoParams, res)
        /\ UNCHANGED <<captchaVars, resetVars, subdomainVars, botVars, loginVars,
                     registrationVars,
                   restVars>>

DeactivateOwnUser ==
    \E c \in Callers :
        LET res == deactivate_user_own_backend(users, c) IN
        /\ users' = res.users
        /\ last' = Handled("deactivate_user_own_backend", c, c, NoParams, res)
        /\ UNCHANGED <<captchaVars, resetVars, subdomainVars, botVars, loginVars,
                     registrationVars,
                   restVars>>

DeactivateBot ==
    \E c \in Callers, t \in UserIds :
        LET res == deactivate_bot_backend(users, c, t) IN
        /\ users' = res.users
        /\ last' = Handled("deactivate_bot_backend", c, t, NoParams, res)
        /\ UNCHANGED <<captchaVars, resetVars, subdomainVars, botVars, loginVars,
                     registrationVars,
                   restVars>>

ReactivateUser ==
    \E c \in Callers, t \in UserIds,
       bot_checks \in {OK, "JsonableError: Must be an organization administrator"} :
        LET res == reactivate_user_backend(users, c, t, bot_checks) IN
        /\ users' = res.users
        /\ last' = Handled("reactivate_user_backend", c, t, NoParams, res)
        /\ UNCHANGED <<captchaVars, resetVars, subdomainVars, botVars, loginVars,
                     registrationVars,
                   restVars>>

UpdateUserRole ==
    \E c \in Callers, t \in UserIds, role \in RoleInputs, no_spare_license \in BOOLEAN :
        LET req == RoleOnly(role, no_spare_license)
            res == update_user_by_id_api(users, c, t, req) IN
        /\ users' = res.users
        /\ last' = Handled("update_user_by_id_api", c, t, req, res)
        /\ UNCHANGED <<captchaVars, resetVars, subdomainVars, botVars, loginVars,
                     registrationVars,
                   restVars>>

PatchBotRole ==
    \E c \in Callers, t \in UserIds, role \in RoleInputs :
        LET req == [full_name |-> None, role |-> role, bot_owner_id |-> NoUser,
                    later |-> None]
            res == patch_bot_backend(users, c, t, req) IN
        /\ users' = res.users
        /\ last' = Handled("patch_bot_backend", c, t, req, res)
        /\ UNCHANGED <<captchaVars, resetVars, subdomainVars, botVars, loginVars,
                     registrationVars,
                   restVars>>

NextUsers ==
    \/ DeactivateUser
    \/ DeactivateOwnUser
    \/ DeactivateBot
    \/ ReactivateUser
    \/ UpdateUserRole
    \/ PatchBotRole

SpecUsers == InitUsers /\ [][NextUsers]_vars

\* One update request, with every parameter, made of any such realm.
UpdateUserById ==
    /\ last = NoRequest
    /\ \E c \in Callers, t \in UserIds, req \in UpdateRequests :
        LET res == update_user_by_id_api(users, c, t, req) IN
        /\ users' = res.users
        /\ last' = Handled("update_user_by_id_api", c, t, req, res)
        /\ UNCHANGED <<captchaVars, resetVars, subdomainVars, botVars, loginVars,
                     registrationVars,
                   restVars>>

UpdateUserByEmail ==
    /\ last = NoRequest
    /\ \E c \in Callers, t \in UserIds, req \in UpdateRequests :
        LET res == update_user_by_email_api(users, c, users[t].delivery_email, req) IN
        /\ users' = res.users
        /\ last' = Handled("update_user_by_email_api", c, t, req, res)
        /\ UNCHANGED <<captchaVars, resetVars, subdomainVars, botVars, loginVars,
                     registrationVars,
                   restVars>>

PatchBot ==
    /\ last = NoRequest
    /\ \E c \in Callers, t \in UserIds, req \in BotRequests :
        LET res == patch_bot_backend(users, c, t, req) IN
        /\ users' = res.users
        /\ last' = Handled("patch_bot_backend", c, t, req, res)
        /\ UNCHANGED <<captchaVars, resetVars, subdomainVars, botVars, loginVars,
                     registrationVars,
                   restVars>>

NextUpdate ==
    \/ UpdateUserById
    \/ UpdateUserByEmail
    \/ PatchBot

SpecUpdate == InitUsers /\ [][NextUpdate]_vars

(***************************************************************************)
(* One HTTP session: challenges are issued to it and captchas checked      *)
(* against it, one request after the other.                                *)
(***************************************************************************)
InitCaptcha ==
    /\ altcha_challenges = <<>>
    /\ issued = 0
    /\ verified = [p \in Payloads |-> 0]
    /\ captcha_enabled \in BOOLEAN
    /\ captcha_last = NoCaptchaCall
    /\ users = [i \in UserIds |-> UserProfile(i, ROLE_REALM_OWNER, TRUE)]
    /\ last = NoRequest
    /\ ResetIdle /\ SubdomainIdle /\ BotsIdle /\ LoginIdle /\ RegistrationIdle /\ RestIdle

\* The antispam endpoint creates a challenge never issued before and appends
\* it to the session's list.
IssueChallenge ==
    /\ issued < MaxChallenges
    /\ issued' = issued + 1
    /\ altcha_challenges' = Append(altcha_challenges, SessionEntry(issued + 1))
    /\ UNCHANGED <<verified, captcha_enabled, captcha_last>>
    /\ UNCHANGED <<userVars, resetVars, subdomainVars, botVars, loginVars,
                     registrationVars,
                   restVars>>

\* An accepted payload is counted, up to a second acceptance.
CleanCaptcha ==
    \E payload \in Payloads :
    \E answer \in VerifierAnswers(payload) :
        LET res == clean_captcha(altcha_challenges, payload, answer, captcha_enabled) IN
        /\ altcha_challenges' = res.session
        /\ verified' = IF res.err = OK /\ verified[payload] < 2
                       THEN [verified EXCEPT ![payload] = @ + 1]
                       ELSE verified
        /\ captcha_last' = [payload |-> payload, answer |-> answer, err |-> res.err]
        /\ UNCHANGED <<issued, captcha_enabled>>
        /\ UNCHANGED <<userVars, resetVars, subdomainVars, botVars, loginVars,
                     registrationVars,
                   restVars>>

NextCaptcha ==
    \/ IssueChallenge
    \/ CleanCaptcha

SpecCaptcha == InitCaptcha /\ [][NextCaptcha]_vars

(***************************************************************************)
(* Password reset requests for one realm, one after the other.             *)
(***************************************************************************)
InitReset ==
    /\ realm_settings \in [email_auth_enabled : BOOLEAN, deactivated : BOOLEAN,
                           rate_limiting : BOOLEAN]
    /\ email_hits = [e \in ResetEmails |-> 0]
    /\ ip_hits = [a \in RemoteAddrs |-> 0]
    /\ reset_last = NoSave
    /\ users = [i \in UserIds |-> UserProfile(i, ROLE_REALM_OWNER, TRUE)]
    /\ last = NoRequest
    /\ CaptchaIdle /\ SubdomainIdle /\ BotsIdle /\ LoginIdle /\ RegistrationIdle /\ RestIdle

Limiters == [email_hits |-> email_hits, ip_hits |-> ip_hits]

PasswordReset ==
    \E email \in ResetEmails, ip \in RemoteAddrs, secs \in 1 .. MaxSecs :
        LET res == save(realm_settings, Limiters, email, ip, secs) IN
        /\ email_hits' = res.email_hits
        /\ ip_hits' = res.ip_hits
        /\ reset_last' = [email |-> email, ip |-> ip, err |-> res.err,
                          calls |-> res.calls, consulted |-> res.consulted]
        /\ UNCHANGED realm_settings
        /\ UNCHANGED <<userVars, captchaVars, subdomainVars, botVars, loginVars,
                     registrationVars,
                   restVars>>

\* The window of a limiter passes: its counts start again.
WindowPasses ==
    /\ \/ \E e \in ResetEmails : email_hits[e] > 0
       \/ \E a \in RemoteAddrs : ip_hits[a] > 0
    /\ email_hits' = [e \in ResetEmails |-> 0]
    /\ ip_hits' = [a \in RemoteAddrs |-> 0]
    /\ UNCHANGED <<realm_settings, reset_last>>
    /\ UNCHANGED <<userVars, captchaVars, subdomainVars, botVars, loginVars,
                     registrationVars,
                   restVars>>

NextReset ==
    \/ PasswordReset
    \/ WindowPasses

SpecReset == InitReset /\ [][NextReset]_vars

(***************************************************************************)
(* check_subdomain_available applied to a candidate.                       *)
(***************************************************************************)
\* Realms that may exist: the root domain's, an ordinary one and one created
\* on a reserved name.
RealmPool == {SUBDOMAIN_FOR_ROOT_DOMAIN, <<"7", "7", "7">>, <<"w", "w", "w">>}

InitSubdomain ==
    /\ candidate \in Candidates
    /\ allow_reserved \in BOOLEAN
    /\ existing_realms \in SUBSET RealmPool
    /\ subdomain_result = Pending
    /\ subdomain_warnings = {}
    /\ users = [i \in UserIds |-> UserProfile(i, ROLE_REALM_OWNER, TRUE)]
    /\ last = NoRequest
    /\ CaptchaIdle /\ ResetIdle /\ BotsIdle /\ LoginIdle /\ RegistrationIdle /\ RestIdle

CheckSubdomain ==
    /\ subdomain_result = Pending
    /\ subdomain_result' =
          check_subdomain_available(candidate, allow_reserved, existing_realms)
    /\ subdomain_warnings' =
          check_subdomain_available_warnings(candidate, allow_reserved, existing_realms)
    /\ UNCHANGED <<candidate, allow_reserved, existing_realms>>
    /\ UNCHANGED <<userVars, captchaVars, resetVars, botVars, loginVars,
                     registrationVars,
                   restVars>>

NextSubdomain == CheckSubdomain

SpecSubdomain == InitSubdomain /\ [][NextSubdomain]_vars

(***************************************************************************)
(* add_bot_backend requests of one caller in one realm, one after the      *)
(* other.                                                                  *)
(***************************************************************************)
\* The caller's own account exists before any bot does.
CallerAccount ==
    [delivery_email |-> BotCaller, full_name |-> "Hamlet", is_bot |-> FALSE,
     is_active |-> TRUE, bot_type |-> None, bot_owner |-> None,
     avatar_source |-> AVATAR_FROM_GRAVATAR]

InitBots ==
    /\ bot_settings \in [fake_email_domain_configured : BOOLEAN,
                         embedded_bots_enabled : BOOLEAN, can_create_bots : BOOLEAN]
    /\ accounts = {CallerAccount}
    /\ services = {}
    /\ bot_config = {}
    /\ bots_added = 0
    /\ bot_last = NoBotRequest
    /\ users = [i \in UserIds |-> UserProfile(i, ROLE_REALM_OWNER, TRUE)]
    /\ last = NoRequest
    /\ CaptchaIdle /\ ResetIdle /\ SubdomainIdle /\ LoginIdle /\ RegistrationIdle /\ RestIdle

\* A first request that asks for a plain bot: no files, streams, service or
\* config.
IsPlain(req) ==
    /\ req.bot_type = DEFAULT_BOT
    /\ req.config_data = {} /\ req.service_name = None
    /\ req.interface_type = GENERIC /\ req.files = 0 /\ req.streams = None

PlainBotRequests == {req \in AddBotRequests : IsPlain(req)}

AddBotHandled(req) ==
    LET res == add_bot_backend(bot_settings, accounts, services, bot_config, BotCaller, req) IN
    /\ accounts' = res.accounts
    /\ services' = res.services
    /\ bot_config' = res.bot_config
    /\ bots_added' = bots_added + 1
    /\ bot_last' = [req |-> req, err |-> res.err, calls |-> res.calls,
                    created |-> res.created, before |-> accounts]
    /\ UNCHANGED bot_settings
    /\ UNCHANGED <<userVars, captchaVars, resetVars, subdomainVars, loginVars,
                   registrationVars,
                   restVars>>

AddFirstBot ==
    /\ bots_added = 0
    /\ \E req \in PlainBotRequests : AddBotHandled(req)

AddBot ==
    /\ bots_added = 0 \/ (bots_added = 1 /\ IsPlain(bot_last.req))
    /\ \E req \in AddBotRequests \ PlainBotRequests : AddBotHandled(req)

AddPlainBotAgain ==
    /\ bots_added = 1
    /\ IsPlain(bot_last.req)
    /\ \E req \in PlainBotRequests : AddBotHandled(req)

NextBots ==
    \/ AddFirstBot
    \/ AddBot
    \/ AddPlainBotAgain

SpecBots == InitBots /\ [][NextBots]_vars

(***************************************************************************)
(* Login forms cleaned one after the other.                                *)
(***************************************************************************)
MaxLogins == 2

InitLogin ==
    /\ LoginIdle
    /\ users = [i \in UserIds |-> UserProfile(i, ROLE_REALM_OWNER, TRUE)]
    /\ last = NoRequest
    /\ CaptchaIdle /\ ResetIdle /\ SubdomainIdle /\ BotsIdle /\ RegistrationIdle /\ RestIdle

CleanLogin ==
    /\ login_attempts < MaxLogins
    /\ \E username \in LoginUsernames, password \in LoginPasswords,
          subdomain \in LoginSubdomains, outcome \in AuthOutcomes :
        LET res == OurAuthenticationForm_clean(username, password, subdomain, outcome) IN
        /\ login_log' = login_log \o res.logged
        /\ login_attempts' = login_attempts + 1
        /\ login_last' = [username |-> username, password |-> password,
                          subdomain |-> subdomain, outcome |-> outcome,
                          shown |-> res.shown, called |-> res.called]
    /\ UNCHANGED <<userVars, captchaVars, resetVars, subdomainVars, botVars,
                   registrationVars,
                   restVars>>

NextLogin == CleanLogin

SpecLogin == InitLogin /\ [][NextLogin]_vars

(***************************************************************************)
(* A RegistrationForm is constructed, data is bound to it and validated.   *)
(***************************************************************************)
TooLongSubdomain == [i \in 1 .. MAX_REALM_SUBDOMAIN_LENGTH + 1 |-> "w"]

RegistrationData ==
    [realm_subdomain : {<<>>, <<"w", "w", "7">>, <<"w", "w", "w">>, TooLongSubdomain},
     realm_in_root_domain : BOOLEAN,
     realm_name : {"", "   ", "Acme"},
     realm_type : {"", "10", "999"},
     realm_default_language : {"", "en", "xx"},
     how_realm_creator_found_zulip : {"", "ad"},
     full_name : {"", "Hamlet", InvalidName},
     password : {"", "correct horse"} \cup WeakPasswords,
     terms : BOOLEAN]

InitRegistration ==
    /\ registration_form \in [realm_creation : BOOLEAN, terms_of_service : BOOLEAN,
                              password_required : BOOLEAN]
    /\ registration_last = NoSubmission
    /\ candidate = SUBDOMAIN_FOR_ROOT_DOMAIN
    /\ allow_reserved = FALSE
    /\ existing_realms \in {{}, {SUBDOMAIN_FOR_ROOT_DOMAIN}}
    /\ subdomain_result = Pending
    /\ subdomain_warnings = {}
    /\ users = [i \in UserIds |-> UserProfile(i, ROLE_REALM_OWNER, TRUE)]
    /\ last = NoRequest
    /\ CaptchaIdle /\ ResetIdle /\ BotsIdle /\ LoginIdle /\ RestIdle

SubmitRegistration ==
    /\ ~registration_last.submitted
    /\ \E data \in RegistrationData :
        registration_last' =
            [submitted |-> TRUE, data |-> data,
             errors |-> RegistrationForm_errors(registration_form, existing_realms, data)]
    /\ UNCHANGED registration_form
    /\ UNCHANGED <<userVars, captchaVars, resetVars, subdomainVars, botVars, loginVars,
                   restVars>>

NextRegistration == SubmitRegistration

SpecRegistration == InitRegistration /\ [][NextRegistration]_vars

(***************************************************************************)
(* A HomepageForm is constructed and its email is cleaned.                 *)
(***************************************************************************)
InitHomepage ==
    /\ homepage_form \in
           [realm_exists : BOOLEAN, invite_required : BOOLEAN,
            password_auth_enabled : BOOLEAN, is_zephyr_mirror_realm : BOOLEAN,
            from_multiuse_invite : BOOLEAN, require_password_backend : BOOLEAN,
            billing_enabled : BOOLEAN]
    /\ homepage_last = NoCleanEmail
    /\ users = [i \in UserIds |-> UserProfile(i, ROLE_REALM_OWNER, TRUE)]
    /\ last = NoRequest
    /\ CaptchaIdle /\ ResetIdle /\ SubdomainIdle /\ BotsIdle /\ LoginIdle
    /\ RegistrationIdle /\ AvatarIdle /\ RaceIdle /\ ConcIdle

CleanEmail ==
    /\ ~homepage_last.cleaned
    /\ \E email \in HomepageEmails, allowed \in AllowedOutcomes, dns \in DnsOutcomes,
          licenses_left \in BOOLEAN :
        homepage_last' =
            [cleaned |-> TRUE, email |-> email, allowed |-> allowed, dns |-> dns,
             licenses_left |-> licenses_left,
             result |-> HomepageForm_clean_email(homepage_form, email, allowed, dns,
                                                 licenses_left)]
    /\ UNCHANGED homepage_form
    /\ UNCHANGED <<userVars, captchaVars, resetVars, subdomainVars, botVars, loginVars,
                   registrationVars, avatarVars, raceVars, concVars>>

NextHomepage == CleanEmail

SpecHomepage == InitHomepage /\ [][NextHomepage]_vars

(***************************************************************************)
(* Avatar requests, one handled after the other.                           *)
(***************************************************************************)
InitAvatar ==
    /\ avatar_realm \in [web_public : BOOLEAN, rate_limiting : BOOLEAN]
    /\ avatar_last = NoAvatarRequest
    /\ users = [i \in UserIds |-> UserProfile(i, ROLE_REALM_OWNER, TRUE)]
    /\ last = NoRequest
    /\ CaptchaIdle /\ ResetIdle /\ SubdomainIdle /\ BotsIdle /\ LoginIdle
    /\ RegistrationIdle /\ HomepageIdle /\ RaceIdle /\ ConcIdle

AvatarHandled(endpoint, requester, email, user_id, medium, query, limited, response) ==
    /\ avatar_last' = [endpoint |-> endpoint, requester |-> requester, email |-> email,
                       user_id |-> user_id, medium |-> medium, query |-> query,
                       limited |-> limited, response |-> response]
    /\ UNCHANGED avatar_realm
    /\ UNCHANGED <<userVars, captchaVars, resetVars, subdomainVars, botVars, loginVars,
                   registrationVars, homepageVars, raceVars, concVars>>

AvatarById ==
    \E requester \in AvatarRequesters, user_id \in AvatarUserIds, medium \in BOOLEAN,
       query \in QueryStrings, limited \in BOOLEAN :
        AvatarHandled("avatar_by_id", requester, "", user_id, medium, query, limited,
                      avatar_by_id(avatar_realm, requester, user_id, medium, query, limited))

AvatarByEmail ==
    \E requester \in AvatarRequesters, email \in AvatarEmails, medium \in BOOLEAN,
       query \in QueryStrings, limited \in BOOLEAN :
        AvatarHandled("avatar_by_email", requester, email, NoUser, medium, query, limited,
                      avatar_by_email(avatar_realm, requester, email, medium, query, limited))

AvatarMedium ==
    \E requester \in AvatarRequesters, query \in QueryStrings, limited \in BOOLEAN :
        \/ \E email \in AvatarEmails :
               AvatarHandled("avatar_medium", requester, email, NoUser, TRUE, query, limited,
                             avatar_medium(avatar_realm, requester, email, NoUser, query,
                                           limited))
        \/ \E user_id \in AvatarUserIds :
               AvatarHandled("avatar_medium", requester, "", user_id, TRUE, query, limited,
                             avatar_medium(avatar_realm, requester, "", user_id, query,
                                           limited))

NextAvatar ==
    \/ AvatarById
    \/ AvatarByEmail
    \/ AvatarMedium

SpecAvatar == InitAvatar /\ [][NextAvatar]_vars

(***************************************************************************)
(* Two requests of one HTTP session run clean_captcha with the same        *)
(* payload at the same time.  Each request works on the copy of the        *)
(* session it read from the session store and writes that copy back; the   *)
(* code takes no lock between the two.                                     *)
(***************************************************************************)
\* The lists of distinct challenges a session can hold.
SessionLists ==
    {q \in UNION {[1 .. n -> ChallengeIds] : n \in 0 .. MaxChallenges} :
        \A i, j \in DOMAIN q : i # j => q[i] # q[j]}

InitRace ==
    /\ \E q \in SessionLists :
        /\ altcha_challenges = [i \in DOMAIN q |-> SessionEntry(q[i])]
        /\ issued = Len(q)
    /\ verified = [p \in Payloads |-> 0]
    /\ captcha_enabled \in BOOLEAN
    /\ captcha_last = NoCaptchaCall
    /\ race_payload \in Payloads
    /\ race_pc = [r \in Requests |-> "start"]
    /\ race_session = [r \in Requests |-> <<>>]
    /\ race_result = [r \in Requests |-> "none"]
    /\ race_events = <<>>
    /\ users = [i \in UserIds |-> UserProfile(i, ROLE_REALM_OWNER, TRUE)]
    /\ last = NoRequest
    /\ ResetIdle /\ SubdomainIdle /\ BotsIdle /\ LoginIdle /\ RegistrationIdle
    /\ HomepageIdle /\ AvatarIdle /\ ConcIdle

RaceUnchanged ==
    /\ UNCHANGED <<issued, verified, captcha_enabled, captcha_last, race_payload>>
    /\ UNCHANGED <<userVars, resetVars, subdomainVars, botVars, loginVars,
                   registrationVars, homepageVars, avatarVars, concVars>>

\* The request fails before it looks at the session: challenges are not
\* enabled, or the verifier refuses the payload or raises.
RaceRefused(r) ==
    /\ race_pc[r] = "start"
    /\ \E answer \in VerifierAnswers(race_payload) :
        /\ ~captcha_enabled \/ answer # "ok"
        /\ race_result' =
               [race_result EXCEPT ![r] =
                   clean_captcha(<<>>, race_payload, answer, captcha_enabled).err]
    /\ race_pc' = [race_pc EXCEPT ![r] = "done"]
    /\ UNCHANGED <<altcha_challenges, race_session, race_events>>
    /\ RaceUnchanged

\* The request reads the session and looks for the challenge in its copy;
\* if it is there, the copy without the challenge is what it will write.
RaceRead(r) ==
    /\ race_pc[r] = "start"
    /\ captcha_enabled
    /\ "ok" \in VerifierAnswers(race_payload)
    /\ LET res == clean_captcha(altcha_challenges, race_payload, "ok", captcha_enabled) IN
        /\ race_session' = [race_session EXCEPT ![r] = res.session]
        /\ race_pc' = [race_pc EXCEPT ![r] = IF res.err = OK THEN "read" ELSE "done"]
        /\ race_result' = [race_result EXCEPT ![r] = IF res.err = OK THEN "none" ELSE res.err]
    /\ race_events' = Append(race_events, <<r, "read">>)
    /\ UNCHANGED altcha_challenges
    /\ RaceUnchanged

\* The request writes its copy of the session back and returns the payload.
RaceWrite(r) ==
    /\ race_pc[r] = "read"
    /\ altcha_challenges' = race_session[r]
    /\ race_pc' = [race_pc EXCEPT ![r] = "done"]
    /\ race_result' = [race_result EXCEPT ![r] = OK]
    /\ race_events' = Append(race_events, <<r, "write">>)
    /\ UNCHANGED race_session
    /\ RaceUnchanged

NextRace ==
    \E r \in Requests :
        \/ RaceRefused(r)
        \/ RaceRead(r)
        \/ RaceWrite(r)

SpecRace == InitRace /\ [][NextRace]_vars

(***************************************************************************)
(* Two requests are handled at the same time in a realm with exactly two   *)
(* active human owners.  One is a deactivate_user_own_backend; the other   *)
(* is a second deactivate_user_own_backend or an update_user_backend that  *)
(* asks for a role.  A handler first makes its checks on the rows as they  *)
(* are then, and afterwards writes the one field it changes; the code      *)
(* takes no lock on the realm or on the rows it has read in between.       *)
(***************************************************************************)
ConcRequest(op, c, t, role) == [op |-> op, caller |-> c, target |-> t, role |-> role]

InitConc ==
    /\ \E role \in ROLE_TYPES, active \in BOOLEAN :
        users = [i \in UserIds |->
                    IF i \in Humans THEN UserProfile(i, ROLE_REALM_OWNER, TRUE)
                    ELSE UserProfile(i, role, active)]
    /\ last = NoRequest
    /\ \E c \in Humans :
        \E second \in
              {ConcRequest("deactivate_user_own_backend", o, o, None) : o \in Humans}
              \cup {ConcRequest("update_user_backend", x[1], x[2], x[3]) :
                        x \in Humans \X Humans \X ROLE_TYPES} :
            conc_req = [r \in Requests |->
                           IF r = 1
                           THEN ConcRequest("deactivate_user_own_backend", c, c, None)
                           ELSE second]
    /\ conc_pc = [r \in Requests |-> "start"]
    /\ conc_err = [r \in Requests |-> "none"]
    /\ conc_events = <<>>
    /\ CaptchaIdle /\ ResetIdle /\ SubdomainIdle /\ BotsIdle /\ LoginIdle
    /\ RegistrationIdle /\ HomepageIdle /\ AvatarIdle /\ RaceIdle

\* What the handler of the request finds and would do on the rows given.
ConcHandled(us, req) ==
    IF req.op = "deactivate_user_own_backend"
    THEN deactivate_user_own_backend(us, req.caller)
    ELSE update_user_backend(us, req.caller, req.target, RoleOnly(req.role, FALSE))

ConcUnchanged ==
    /\ UNCHANGED <<last, conc_req>>
    /\ UNCHANGED <<captchaVars, resetVars, subdomainVars, botVars, loginVars,
                   registrationVars, homepageVars, avatarVars, raceVars>>

\* The checks of the handler end the request: an error is raised, or there
\* is nothing to change.
ConcCheckEnds(r) ==
    /\ conc_pc[r] = "start"
    /\ LET res == ConcHandled(users, conc_req[r]) IN
        /\ res.calls = {}
        /\ conc_err' = [conc_err EXCEPT ![r] = res.err]
    /\ conc_pc' = [conc_pc EXCEPT ![r] = "done"]
    /\ conc_events' = Append(conc_events, <<r, "check">>)
    /\ UNCHANGED users
    /\ ConcUnchanged

\* The checks of the handler pass: what is left is the call of
\* do_deactivate_user or do_change_user_role.
ConcCheckPasses(r) ==
    /\ conc_pc[r] = "start"
    /\ ConcHandled(users, conc_req[r]).calls # {}
    /\ conc_pc' = [conc_pc EXCEPT ![r] = "checked"]
    /\ conc_events' = Append(conc_events, <<r, "check">>)
    /\ UNCHANGED <<users, conc_err>>
    /\ ConcUnchanged

\* do_deactivate_user or do_change_user_role writes its field of the row.
ConcWrite(r) ==
    /\ conc_pc[r] = "checked"
    /\ users' = IF conc_req[r].op = "deactivate_user_own_backend"
                THEN do_deactivate_user(users, conc_req[r].caller)
                ELSE do_change_user_role(users, conc_req[r].target, conc_req[r].role)
    /\ conc_pc' = [conc_pc EXCEPT ![r] = "done"]
    /\ conc_err' = [conc_err EXCEPT ![r] = OK]
    /\ conc_events' = Append(conc_events, <<r, "write">>)
    /\ ConcUnchanged

NextConc ==
    \E r \in Requests :
        \/ ConcCheckEnds(r)
        \/ ConcCheckPasses(r)
        \/ ConcWrite(r)

SpecConc == InitConc /\ [][NextConc]_vars

(***************************************************************************)
(* Claims about the user endpoints.                                        *)
(***************************************************************************)
OwnerRequired == "OrganizationOwnerRequiredError"
AdminRequired == "OrganizationAdministratorRequiredError"
EmailNotAuthorized == "JsonableError: User not authorized to change user emails"
LastUserNotOwner == "CannotDeactivateLastUserError(is_last_owner=False)"
LastUserOwner == "CannotDeactivateLastUserError(is_last_owner=True)"

\* C1: whatever sequence of deactivation, reactivation and role change
\* requests the realm has handled, one after the other, it still has an
\* active human user holding the owner role.
C1_ActiveHumanOwnerRemains == get_human_owner_users(users) # {}

\* C1 witness: the realm is down to one active human owner and the last
\* request, which would have removed that owner, was refused.
C1_Witness ==
    /\ Cardinality(get_human_owner_users(users)) = 1
    /\ last.target \in get_human_owner_users(users)
    /\ last.err \in
         { LastUserOwner,
           "JsonableError: Cannot deactivate the only organization owner",
           "JsonableError: The owner permission cannot be removed from the only organization owner." }

\* C3: deactivate_user_own_backend fails with is_last_owner=False when the
\* caller is the only active user of the realm, owner or not, and with
\* is_last_owner=True when other users are active and the caller is the only
\* human owner; either way do_deactivate_user is not called.
C3_OwnDeactivationRefused ==
    [][ last'.op = "deactivate_user_own_backend" =>
          LET c == last'.caller IN
          /\ active_users(users) = {c} =>
                /\ last'.err = LastUserNotOwner
                /\ "do_deactivate_user" \notin last'.calls
                /\ users' = users
          /\ (active_users(users) # {c} /\ get_human_owner_users(users) = {c}) =>
                /\ last'.err = LastUserOwner
                /\ "do_deactivate_user" \notin last'.calls
                /\ users' = users ]_vars

\* C3 witness: the only active user, who is also the only owner, asked to be
\* deactivated and was told is_last_owner=False.
C3_Witness ==
    /\ last.op = "deactivate_user_own_backend"
    /\ last.err = LastUserNotOwner
    /\ active_users(users) = {last.caller}
    /\ get_human_owner_users(users) = {last.caller}

\* A step that ran update_user_backend: the endpoint resolved the target.
RanUpdateUserBackend ==
    /\ last'.op \in {"update_user_by_id_api", "update_user_by_email_api"}
    /\ access_user_by_id(users, last'.caller, last'.target, TRUE, TRUE, TRUE) = OK

\* A step in which patch_bot_backend resolved its bot.
RanPatchBotBackend ==
    /\ last'.op = "patch_bot_backend"
    /\ access_bot_by_id(users, last'.caller, last'.target) = OK

\* The role change asked of the target touches the owner role.
OwnerRoleChangeAsked ==
    /\ last'.req.role # None
    /\ last'.req.role # users[last'.target].role
    /\ ROLE_REALM_OWNER \in {last'.req.role, users[last'.target].role}

\* The role change asked of the target leaves the owner role aside.
OtherRoleChangeAsked ==
    /\ last'.req.role # None
    /\ last'.req.role # users[last'.target].role
    /\ ROLE_REALM_OWNER \notin {last'.req.role, users[last'.target].role}

\* The first check of update_user_backend refuses the request's new_email.
EmailChangeRefused ==
    /\ last'.req.new_email # None
    /\ \/ ~users[last'.caller].can_change_user_emails
       \/ ~is_realm_admin(users[last'.caller])

\* C4 as stated: a caller who is not an owner and asks for a role change to
\* or from owner gets OrganizationOwnerRequiredError whatever else the request
\* holds, and the role stays.
C4_Original ==
    [][ ( /\ RanUpdateUserBackend \/ RanPatchBotBackend
          /\ ~is_realm_owner(users[last'.caller])
          /\ OwnerRoleChangeAsked )
        => /\ last'.err = OwnerRequired
           /\ users'[last'.target].role = users[last'.target].role ]_vars

\* C4 amended: such a request always fails and leaves the role as it was;
\* the error is OrganizationOwnerRequiredError unless an earlier check of the
\* same request failed first: the new_email authorization in
\* update_user_backend, the full name check in patch_bot_backend.
C4_OwnerRoleNeedsOwner ==
    [][ ( /\ RanUpdateUserBackend \/ RanPatchBotBackend
          /\ ~is_realm_owner(users[last'.caller])
          /\ OwnerRoleChangeAsked )
        => /\ last'.err # OK
           /\ users'[last'.target].role = users[last'.target].role
           /\ "do_change_user_role" \notin last'.calls
           /\ RanUpdateUserBackend =>
                last'.err = IF EmailChangeRefused THEN EmailNotAuthorized ELSE OwnerRequired
           /\ RanPatchBotBackend =>
                \/ last'.err = OwnerRequired
                \/ /\ last'.req.full_name # None
                   /\ last'.err = check_change_bot_full_name(
                                     users, last'.target, last'.req.full_name).err ]_vars

\* C4 witness: an administrator who may change emails asked, with a new
\* email, a new name and profile data, to make a user an owner, and got
\* OrganizationOwnerRequiredError.
C4_Witness ==
    /\ last.op = "update_user_by_id_api"
    /\ last.err = OwnerRequired
    /\ last.req.role = ROLE_REALM_OWNER
    /\ last.req.new_email = SpareEmail
    /\ last.req.full_name = NewName
    /\ last.req.profile_data.given
    /\ users[last.caller].role = ROLE_REALM_ADMINISTRATOR

\* C5 as stated: a role change that leaves the owner role aside fails with
\* OrganizationAdministratorRequiredError, without do_change_user_role, for a
\* caller who is not an administrator, and reaches do_change_user_role for an
\* administrator unless the licence check refuses it.
C5_Original ==
    [][ (RanUpdateUserBackend /\ OtherRoleChangeAsked)
        => IF is_realm_admin(users[last'.caller])
           THEN \/ "do_change_user_role" \in last'.calls
                \/ last'.err = "LicenseLimitError"
           ELSE /\ last'.err = AdminRequired
                /\ "do_change_user_role" \notin last'.calls ]_vars

\* C5 amended: the same, for a request that passes the new_email
\* authorization (no new_email, or an administrator allowed to change
\* emails); a request that does not pass it fails with "User not authorized
\* to change user emails" and do_change_user_role is not called.
C5_OtherRoleNeedsAdmin ==
    [][ (RanUpdateUserBackend /\ OtherRoleChangeAsked)
        => IF EmailChangeRefused
           THEN /\ last'.err = EmailNotAuthorized
                /\ "do_change_user_role" \notin last'.calls
           ELSE IF is_realm_admin(users[last'.caller])
           THEN \/ "do_change_user_role" \in last'.calls
                \/ /\ last'.err = "LicenseLimitError"
                   /\ "do_change_user_role" \notin last'.calls
           ELSE /\ last'.err = AdminRequired
                /\ "do_change_user_role" \notin last'.calls ]_vars

\* C5 witness: a member who owns a bot asked for the bot to become a guest
\* and got OrganizationAdministratorRequiredError.
C5_Witness ==
    /\ last.op = "update_user_by_id_api"
    /\ last.err = AdminRequired
    /\ users[last.caller].role = ROLE_MEMBER
    /\ last.req.role = ROLE_GUEST
    /\ last.req.new_email = None

\* C6: a request to update_user_by_id_api or update_user_by_email_api that
\* fails leaves every row of the realm as it was.
C6_FailedUpdateChangesNothing ==
    [][ ( /\ last'.op \in {"update_user_by_id_api", "update_user_by_email_api"}
          /\ last'.err # OK )
        => users' = users ]_vars

\* C6 witness: a request changed the role, the name and the profile data of
\* its target, then failed on a new email another user has; the target's row
\* is as before.
C6_Witness ==
    /\ last.op = "update_user_by_id_api"
    /\ last.err = "JsonableError: New email value error"
    /\ { "do_change_user_role", "do_change_full_name",
         "do_update_user_custom_profile_data_if_changed" } \subseteq last.calls
    /\ users[last.target].role # last.req.role
    /\ users[last.target].full_name = InitialName
    /\ users[last.target].profile = NoValue

(***************************************************************************)
(* Claims about the forms.                                                 *)
(***************************************************************************)
\* C2: on one session, once clean_captcha has succeeded for a payload, every
\* later clean_captcha call with the same payload fails with the validation
\* error and leaves the session as it was; the challenge is no longer in the
\* session's altcha_challenges.
C2_VerifiedPayloadFailsAgain ==
    [][ CleanCaptcha =>
          LET payload == captcha_last'.payload IN
          verified[payload] >= 1 =>
              /\ captcha_last'.err = CaptchaFailed
              /\ payload.challenge \notin
                     {altcha_challenges[i][1] : i \in DOMAIN altcha_challenges}
              /\ altcha_challenges' = altcha_challenges
              /\ verified' = verified ]_vars

\* C2 witness: a payload verified once was sent again, the verifier accepted
\* its solution, and the call failed.
C2_Witness ==
    /\ captcha_last.answer = "ok"
    /\ captcha_last.err = CaptchaFailed
    /\ verified[captcha_last.payload] = 1

\* The request of a save step was not let go before the limiters.
ReachedLimiters(email) ==
    /\ realm_settings.email_auth_enabled
    /\ ~email_belongs_to_ldap(email)
    /\ ~realm_settings.deactivated

\* C7: with rate limiting enabled, a save whose per-email limiter or whose
\* per-IP limiter reports the limit exceeded raises RateLimitedError with the
\* seconds to wait, and do_send_password_reset_email is not called.
C7_LimitedRequestSendsNothing ==
    [][ PasswordReset =>
          LET r == reset_last'
              consulted == {r.consulted[i] : i \in DOMAIN r.consulted}
              reported ==
                  \/ "email" \in consulted /\ email_hits[r.email] >= EmailRateLimit
                  \/ "ip" \in consulted /\ ip_hits[r.ip] >= IpRateLimit
          IN  (realm_settings.rate_limiting /\ reported) =>
                  /\ r.err.type = "RateLimitedError"
                  /\ r.err.secs_to_freedom \in 1 .. MaxSecs
                  /\ "do_send_password_reset_email" \notin r.calls ]_vars

\* C7 witness: the per-IP limiter, asked after the per-email limiter let the
\* request pass, refused it.
C7_Witness ==
    /\ realm_settings.rate_limiting
    /\ reset_last.consulted = <<"email", "ip">>
    /\ reset_last.err.type = "RateLimitedError"
    /\ reset_last.calls = {}

\* C8 as stated: save returns success whenever password auth is disabled, the
\* email is LDAP-managed, the realm is deactivated or no account matches, and
\* the only error it raises is RateLimitedError.
C8_Original ==
    reset_last.email # None =>
        /\ ( \/ ~ReachedLimiters(reset_last.email)
             \/ ~HasAccount(reset_last.email) ) => reset_last.err = Returned
        /\ reset_last.err.type \in {OK, "RateLimitedError"}

\* C8: save returns success whenever password auth is disabled, the email is
\* LDAP-managed or the realm is deactivated; for an email that no account
\* matches it returns success unless a rate limit is exceeded; and the only
\* error it raises is RateLimitedError.
C8_SuccessUnlessRateLimited ==
    [][ PasswordReset =>
          LET r == reset_last'
              exceeded ==
                  /\ realm_settings.rate_limiting
                  /\ \/ email_hits[r.email] >= EmailRateLimit
                     \/ ip_hits[r.ip] >= IpRateLimit
          IN  /\ ~ReachedLimiters(r.email) => r.err = Returned
              /\ (~HasAccount(r.email) /\ ~exceeded) => r.err = Returned
              /\ r.err.type \in {OK, "RateLimitedError"} ]_vars

\* C8 witness: a request for an email that no account matches passed both
\* limiters and returned.
C8_Witness ==
    /\ ~HasAccount(reset_last.email)
    /\ reset_last.consulted = <<"email", "ip">>
    /\ reset_last.err = Returned

\* A matching account that save lets go without a word.
SkippedAccount(email) == HasAccount(email) /\ ~ReachedLimiters(email)

\* C9 as stated: of two saves in the same realm, from the same address and
\* with the limiters in the same state, one for an email without an account
\* and one for an account that is skipped, both succeed or both fail.
C9_Original ==
    \A e1, e2 \in ResetEmails, ip \in RemoteAddrs, secs \in 1 .. MaxSecs :
        (~HasAccount(e1) /\ SkippedAccount(e2)) =>
            save(realm_settings, Limiters, e1, ip, secs).err.type
                = save(realm_settings, Limiters, e2, ip, secs).err.type

\* C9: of two such saves both succeed or both fail, unless the request for
\* the email without an account gets as far as the rate limiters and a rate
\* limit is exceeded for it.
C9_SameOutcomeUnlessRateLimited ==
    \A e1, e2 \in ResetEmails, ip \in RemoteAddrs, secs \in 1 .. MaxSecs :
        LET exceeded ==
                /\ ReachedLimiters(e1)
                /\ realm_settings.rate_limiting
                /\ \/ email_hits[e1] >= EmailRateLimit
                   \/ ip_hits[ip] >= IpRateLimit
        IN  (~HasAccount(e1) /\ SkippedAccount(e2) /\ ~exceeded) =>
                save(realm_settings, Limiters, e1, ip, secs).err.type
                    = save(realm_settings, Limiters, e2, ip, secs).err.type

\* C9 witness: a request for an email without an account went through the
\* limiters and returned, where a request for an LDAP-managed account from
\* the same address is skipped.
C9_Witness ==
    /\ reset_last.email = Nobody
    /\ reset_last.err = Returned
    /\ "do_send_password_reset_email" \in reset_last.calls
    /\ realm_settings.rate_limiting
    /\ SkippedAccount(LdapMember)
    /\ save(realm_settings, Limiters, LdapMember, reset_last.ip, 1).err = Returned

\* C10: check_subdomain_available accepts every candidate that matches
\* ^[a-z0-9-]{3,}$, neither starts nor ends with a dash, is not the string_id
\* of a realm and is not reserved.
C10_WellFormedFreeSubdomainAccepted ==
    ( /\ subdomain_result # Pending
      /\ re_match_subdomain(candidate, 3)
      /\ candidate[1] # Dash
      /\ candidate[Len(candidate)] # Dash
      /\ candidate \notin existing_realms
      /\ ~is_reserved_subdomain(candidate) ) => subdomain_result = OK

\* C10 witness: a candidate of exactly three characters with a dash inside
\* was accepted while other realms exist.
C10_Witness ==
    /\ subdomain_result = OK
    /\ candidate = <<"w", Dash, "7">>
    /\ existing_realms # {}

\* C11: for the root domain's sentinel check_subdomain_available accepts
\* exactly when is_root_domain_available holds and otherwise fails with the
\* unavailable error; the dash, character, length and reserved checks are
\* not applied to it.
C11_RootDomainAcceptedIffAvailable ==
    (subdomain_result # Pending /\ candidate = SUBDOMAIN_FOR_ROOT_DOMAIN) =>
        /\ subdomain_result = OK <=> is_root_domain_available(existing_realms)
        /\ subdomain_result # OK => subdomain_result = "unavailable"
        /\ subdomain_result \notin {"extremal dash", "bad character", "too short", "reserved"}

\* C11 witness: the sentinel, shorter than three characters, was accepted
\* while other realms exist and none has the root domain.
C11_Witness ==
    /\ subdomain_result = OK
    /\ candidate = SUBDOMAIN_FOR_ROOT_DOMAIN
    /\ Len(candidate) < 3
    /\ existing_realms # {}

\* The rules for a subdomain that is not the root domain's, as the error
\* messages state them.
ExtremalDashRule(s) == s[1] = Dash \/ s[Len(s)] = Dash
BadCharacterRule(s) == \E i \in DOMAIN s : s[i] \notin Lowercase \cup Digits \cup {Dash}
TooShortRule(s) == Len(s) < 3
UnavailableRule(s) == s \in existing_realms
ReservedRule(s) == is_reserved_subdomain(s) /\ ~allow_reserved

ViolatedRules(s) ==
    {r \in {"extremal dash", "bad character", "too short", "unavailable", "reserved"} :
        \/ r = "extremal dash" /\ ExtremalDashRule(s)
        \/ r = "bad character" /\ BadCharacterRule(s)
        \/ r = "too short" /\ TooShortRule(s)
        \/ r = "unavailable" /\ UnavailableRule(s)
        \/ r = "reserved" /\ ReservedRule(s)}

FirstViolatedRule(s) ==
    IF ExtremalDashRule(s) THEN "extremal dash"
    ELSE IF BadCharacterRule(s) THEN "bad character"
    ELSE IF TooShortRule(s) THEN "too short"
    ELSE IF UnavailableRule(s) THEN "unavailable"
    ELSE IF ReservedRule(s) THEN "reserved"
    ELSE OK

\* C12 as stated: for a candidate other than the sentinel that violates
\* several rules, check_subdomain_available reports the first violated rule
\* in the order extremal dash, bad character, too short, unavailable,
\* reserved.
C12_Original ==
    ( /\ subdomain_result # Pending
      /\ candidate # SUBDOMAIN_FOR_ROOT_DOMAIN
      /\ Cardinality(ViolatedRules(candidate)) >= 2 )
    => subdomain_result = FirstViolatedRule(candidate)

\* C12 for candidates that do not end with a line feed: the first violated
\* rule is the one reported.
C12_FirstViolatedRuleReported ==
    ( /\ subdomain_result # Pending
      /\ candidate # SUBDOMAIN_FOR_ROOT_DOMAIN
      /\ candidate[Len(candidate)] # LineFeed )
    => subdomain_result = FirstViolatedRule(candidate)

\* C12 divergence: a candidate with a character outside [a-z0-9-] and fewer
\* than three characters was reported as too short.
C12_Witness ==
    /\ subdomain_result = "too short"
    /\ BadCharacterRule(candidate)
    /\ ~ExtremalDashRule(candidate)

\* A reserved candidate that passes every other check.
ReservedOnly ==
    /\ subdomain_result # Pending
    /\ candidate # SUBDOMAIN_FOR_ROOT_DOMAIN
    /\ is_reserved_subdomain(candidate)
    /\ ViolatedRules(candidate) \subseteq {"reserved"}

\* C13 as stated: a reserved candidate that passes every other check fails
\* with the reserved error, an OverridableValidationError, when
\* allow_reserved_subdomain is false; when it is true the call accepts and a
\* warning is produced.
C13_Original ==
    ReservedOnly =>
        IF ~allow_reserved
        THEN /\ subdomain_result = "reserved"
             /\ ErrorClass(subdomain_result) = "OverridableValidationError"
        ELSE /\ subdomain_result = OK
             /\ subdomain_warnings # {}

\* C13: a reserved candidate that passes every other check fails with the
\* reserved error, an OverridableValidationError, when
\* allow_reserved_subdomain is false; when it is true the reserved check is
\* left out: the call accepts, and check_subdomain_available produces no
\* warning.
C13_ReservedRefusedUnlessAllowed ==
    ReservedOnly =>
        IF ~allow_reserved
        THEN /\ subdomain_result = "reserved"
             /\ ErrorClass(subdomain_result) = "OverridableValidationError"
        ELSE /\ subdomain_result = OK
             /\ subdomain_warnings = {}

\* C13 witness: a reserved candidate was accepted under
\* allow_reserved_subdomain.
C13_Witness ==
    /\ ReservedOnly
    /\ allow_reserved
    /\ subdomain_result = OK

(***************************************************************************)
(* Claims about add_bot_backend.                                           *)
(***************************************************************************)
\* The service name add_bot_backend goes on with.
EffectiveServiceName(req) ==
    IF req.bot_type # INCOMING_WEBHOOK_BOT /\ req.service_name = None
    THEN req.short_name_raw ELSE req.service_name

\* The email a request asks for.
RequestedEmail(req) == req.short_name_raw \o "-bot@" \o BotDomain

\* The request passes every check made before the files are counted.
PassesChecksBeforeFiles(before, req) ==
    /\ req.short_name_raw # BlankName
    /\ req.full_name_raw # InvalidName
    /\ bot_settings.fake_email_domain_configured
    /\ req.bot_type = EMBEDDED_BOT =>
           /\ bot_settings.embedded_bots_enabled
           /\ EffectiveServiceName(req) \in EMBEDDED_BOTS
    /\ \A a \in before : a.delivery_email # RequestedEmail(req)
    /\ \A a \in before : ~(a.is_active /\ a.full_name = req.full_name_raw)
    /\ bot_settings.can_create_bots
    /\ req.bot_type # UnknownBotType
    /\ req.interface_type # InvalidInterface

\* The request passes every check made after the files are counted.
PassesChecksAfterFiles(req) ==
    /\ req.streams # "inaccessible"
    /\ ( /\ req.bot_type \in {INCOMING_WEBHOOK_BOT, EMBEDDED_BOT}
         /\ EffectiveServiceName(req) # None ) => req.config_data # InvalidConfig

RepeatsBotName ==
    /\ bots_added = 2
    /\ \E a \in bot_last.before : a.is_bot /\ a.full_name = bot_last.req.full_name_raw

\* The request passes every check made before the name is looked up, the
\* email lookup aside.
PassesChecksBeforeEmail(req) ==
    /\ req.short_name_raw # BlankName
    /\ req.full_name_raw # InvalidName
    /\ bot_settings.fake_email_domain_configured
    /\ req.bot_type = EMBEDDED_BOT =>
           /\ bot_settings.embedded_bots_enabled
           /\ EffectiveServiceName(req) \in EMBEDDED_BOTS

\* C15 as stated: a bot created with short name s has the email s-bot@d, and
\* a later request whose full name is that of the existing bot fails with
\* the name collision error and creates no bot.
C15_Original ==
    /\ (bots_added >= 1 /\ bot_last.err = OK) =>
           bot_last.created.delivery_email = RequestedEmail(bot_last.req)
    /\ RepeatsBotName =>
           /\ bot_last.err = NameInUse
           /\ accounts = bot_last.before

\* C15: a bot created with short name s has the email s-bot@d; a later
\* request whose full name is that of the existing bot fails and creates no
\* bot; its error is the name collision error when the checks before the
\* name lookup pass, and EmailAlreadyInUseError when those pass up to the
\* email lookup and the short name is the existing bot's as well.
C15_BotEmailAndNameCollision ==
    /\ (bots_added >= 1 /\ bot_last.err = OK) =>
           /\ bot_last.created.delivery_email = RequestedEmail(bot_last.req)
           /\ bot_last.created \in accounts
    /\ RepeatsBotName =>
           LET req == bot_last.req
               email_taken ==
                   \E a \in bot_last.before : a.delivery_email = RequestedEmail(req)
           IN  /\ bot_last.err # OK
               /\ accounts = bot_last.before
               /\ <<"do_create_user">> \notin bot_last.calls
               /\ (PassesChecksBeforeEmail(req) /\ ~email_taken) =>
                      bot_last.err = NameInUse
               /\ (PassesChecksBeforeEmail(req) /\ email_taken) =>
                      bot_last.err = EmailAlreadyInUseError

\* C15 witness: the bot foo-bot@bots.example.com exists and a request under
\* another short name for its full name was refused for the name.
C15_Witness ==
    /\ RepeatsBotName
    /\ bot_last.err = NameInUse
    /\ \E a \in bot_last.before :
           /\ a.delivery_email = "foo-bot@bots.example.com"
           /\ a.full_name = bot_last.req.full_name_raw
    /\ bot_last.req.short_name_raw = "helloworld"

\* The calls of a request that create or configure a bot.
CreatingCalls(calls) ==
    {c \in calls : c[1] \in {"do_create_user", "add_service", "set_bot_config"}}

\* C16: add_bot_backend rejects the request and calls none of
\* do_create_user, add_service and set_bot_config when (a) the bot email
\* domain is not configured, (b) the type is embedded and embedded bots are
\* disabled or the service name is no embedded bot's, (c) the derived email
\* belongs to a user of the realm, (d) the full name is not available, or
\* (e) the caller may not create this bot type or the interface type is
\* invalid.
C16_RejectedRequestCreatesNothing ==
    [][ LET req == bot_last'.req
            a == ~bot_settings.fake_email_domain_configured
            b == /\ req.bot_type = EMBEDDED_BOT
                 /\ \/ ~bot_settings.embedded_bots_enabled
                    \/ EffectiveServiceName(req) \notin EMBEDDED_BOTS
            c == \E acct \in accounts : acct.delivery_email = RequestedEmail(req)
            d == \E acct \in accounts :
                     acct.is_active /\ acct.full_name = req.full_name_raw
            e == \/ ~bot_settings.can_create_bots
                 \/ req.bot_type = UnknownBotType
                 \/ req.interface_type = InvalidInterface
        IN  (a \/ b \/ c \/ d \/ e) =>
                /\ bot_last'.err # OK
                /\ CreatingCalls(bot_last'.calls) = {}
                /\ accounts' = accounts
                /\ services' = services
                /\ bot_config' = bot_config ]_vars

\* C16 witness: a request that passed every check but that of the interface
\* type was refused for it.
C16_Witness ==
    /\ bots_added >= 1
    /\ bot_last.err = "JsonableError: Invalid interface type"
    /\ bot_last.req.bot_type = OUTGOING_WEBHOOK_BOT
    /\ bot_last.req.files = 1
    /\ PassesChecksAfterFiles(bot_last.req)

\* The set_bot_config calls that the pairs of a config_data ask for.
ConfigCalls(config_data) == {<<"set_bot_config", kv[1], kv[2]>> : kv \in config_data}

\* C17 as stated: on every successful add_bot_backend, whatever the bot
\* type, set_bot_config is called for each pair of config_data.
C17_Original ==
    (bots_added >= 1 /\ bot_last.err = OK) =>
        ConfigCalls(bot_last.req.config_data) \subseteq bot_last.calls

\* C17: on a successful add_bot_backend set_bot_config is called for each
\* pair of config_data, and the pair is stored for the bot created, when the
\* bot is an incoming webhook bot or an embedded bot; for a bot of another
\* type no pair of config_data is applied.
C17_ConfigAppliedByBotType ==
    (bots_added >= 1 /\ bot_last.err = OK) =>
        LET req == bot_last.req
            email == bot_last.created.delivery_email
        IN  IF req.bot_type \in {INCOMING_WEBHOOK_BOT, EMBEDDED_BOT}
            THEN /\ ConfigCalls(req.config_data) \subseteq bot_last.calls
                 /\ \A kv \in req.config_data : <<email, kv[1], kv[2]>> \in bot_config
            ELSE /\ ConfigCalls(req.config_data) \cap bot_last.calls = {}
                 /\ \A kv \in req.config_data : <<email, kv[1], kv[2]>> \notin bot_config

\* C17 witness: an incoming webhook bot was created with two config pairs,
\* both applied.
C17_Witness ==
    /\ bots_added >= 1
    /\ bot_last.err = OK
    /\ bot_last.req.bot_type = INCOMING_WEBHOOK_BOT
    /\ Cardinality(bot_last.req.config_data) = 2
    /\ ConfigCalls(bot_last.req.config_data) \subseteq bot_last.calls

(***************************************************************************)
(* Claims about the owner of a bot.                                        *)
(***************************************************************************)
\* The user a bot_owner_id names may not own a bot, and why.
OwnerRefusal(us, id) ==
    IF id \notin DOMAIN us THEN NoSuchOwner
    ELSE IF ~us[id].is_active THEN OwnerDeactivated
    ELSE IF us[id].is_bot THEN OwnerIsBot
    ELSE OK

\* A step in which patch_bot_backend was given a bot_owner_id and nothing
\* else.
OwnerOnlyAsked ==
    /\ RanPatchBotBackend
    /\ last'.req.bot_owner_id # NoUser
    /\ last'.req.full_name = None
    /\ last'.req.role = None
    /\ last'.req.later = None

\* C18 as stated, for requests that give a bot_owner_id and nothing else: the
\* owner changes only to an existing, active user who is not a bot, and a
\* bot_owner_id that names a missing, deactivated or bot user fails with the
\* corresponding error without do_change_bot_owner.
C18_Original ==
    [][ OwnerOnlyAsked =>
          LET t == last'.target
              id == last'.req.bot_owner_id
          IN  /\ users'[t].bot_owner_id # users[t].bot_owner_id =>
                     OwnerRefusal(users, users'[t].bot_owner_id) = OK
              /\ OwnerRefusal(users, id) # OK =>
                     /\ last'.err = OwnerRefusal(users, id)
                     /\ "do_change_bot_owner" \notin last'.calls ]_vars

\* C18: patch_bot_backend changes a bot's owner only to the user that
\* bot_owner_id names, who exists in the realm, is active and is not a bot.
\* A bot_owner_id other than the bot's current owner's that names a missing,
\* deactivated or bot user makes the request fail without
\* do_change_bot_owner, with the corresponding error when the sections
\* before the owner's raise nothing.  A bot_owner_id that is the current
\* owner's is not looked up: the owner stays, whatever state that user is in.
C18_OwnerOnlyActiveHuman ==
    [][ RanPatchBotBackend =>
          LET t == last'.target
              id == last'.req.bot_owner_id
              current == users[t].bot_owner_id
          IN  /\ users'[t].bot_owner_id # current =>
                     /\ users'[t].bot_owner_id = id
                     /\ OwnerRefusal(users, id) = OK
                     /\ "do_change_bot_owner" \in last'.calls
              /\ (id # NoUser /\ id # current /\ OwnerRefusal(users, id) # OK) =>
                     /\ last'.err # OK
                     /\ "do_change_bot_owner" \notin last'.calls
                     /\ users'[t].bot_owner_id = current
                     /\ (last'.req.full_name = None /\ last'.req.role = None) =>
                            last'.err = OwnerRefusal(users, id)
              /\ id = current =>
                     /\ "do_change_bot_owner" \notin last'.calls
                     /\ users'[t].bot_owner_id = current
                     /\ OwnerOnlyAsked => last'.err = OK ]_vars

\* C18 witness: a request to hand a bot to a deactivated user, after a change
\* of name, was refused for the owner.
C18_Witness ==
    /\ last.op = "patch_bot_backend"
    /\ last.err = OwnerDeactivated
    /\ last.req.full_name = NewName
    /\ "do_change_full_name" \in last.calls
    /\ "do_change_bot_owner" \notin last.calls

(***************************************************************************)
(* Claims about OurAuthenticationForm.                                     *)
(***************************************************************************)
\* authenticate() was called in the last clean() and reported
\* invalid_subdomain.
WrongSubdomainLogin ==
    /\ login_attempts >= 1
    /\ login_last.called
    /\ login_last.outcome.return_data.invalid_subdomain

\* C19: when authenticate() reports invalid_subdomain, the client is shown
\* INVALID_ACCOUNT_CREDENTIALS_ERROR, exactly what it is shown when no user
\* resolves at all, and the same whichever accounts of other realms match;
\* the matching user ids are in the line logged and nowhere in what is shown.
C19_WrongSubdomainShownAsInvalidCredentials ==
    WrongSubdomainLogin =>
        LET l == login_last
            ids == l.outcome.return_data.matching_user_ids_in_different_realms
        IN  /\ l.shown = Shown("ValidationError", INVALID_ACCOUNT_CREDENTIALS_ERROR, "", 0)
            /\ l.shown = OurAuthenticationForm_clean(l.username, l.password,
                                                    l.subdomain, NoUserResolved).shown
            /\ \A o \in AuthOutcomes :
                   o.return_data.invalid_subdomain =>
                       OurAuthenticationForm_clean(l.username, l.password,
                                                   l.subdomain, o).shown = l.shown
            /\ Len(login_log) >= 1
            /\ login_log[Len(login_log)] = WrongSubdomainLine(l.subdomain, ids)

\* C19 witness: a login to the wrong subdomain with two matching accounts
\* elsewhere was answered with the generic error and logged with both ids.
C19_Witness ==
    /\ WrongSubdomainLogin
    /\ login_last.outcome.return_data.matching_user_ids_in_different_realms
           = OtherRealmUserIds
    /\ login_last.shown.message = INVALID_ACCOUNT_CREDENTIALS_ERROR
    /\ \E i \in 1..Len(login_log) : login_log[i].ids = OtherRealmUserIds

(***************************************************************************)
(* Claims about RegistrationForm.                                          *)
(***************************************************************************)
\* The submission left the field empty.
LeftEmpty(data, field) ==
    IF field = "realm_subdomain" THEN data.realm_subdomain = <<>>
    ELSE Strip(data[field]) = ""

\* The codes of the errors of a field.
ErrorsOf(field) == {fe[2] : fe \in {x \in registration_last.errors : x[1] = field}}

\* C20 as stated: a submission that leaves the subdomain, the realm name,
\* the realm type or the realm default language empty fails validation on
\* that field when realm_creation is True and does not when it is False.
C20_Original ==
    registration_last.submitted =>
        \A field \in {"realm_subdomain", "realm_name", "realm_type",
                      "realm_default_language"} :
            LeftEmpty(registration_last.data, field) =>
                IF registration_form.realm_creation
                THEN ErrorsOf(field) # {}
                ELSE ErrorsOf(field) = {}

\* C20: the realm name, the realm type and the realm default language are
\* required exactly when realm_creation is True: left empty, the field
\* fails as required then and raises nothing otherwise.  The subdomain is
\* never a required field: left empty it raises nothing when realm_creation
\* is False, and when realm_creation is True it is taken for the root
\* domain, which fails only if the root domain is not available.
C20_RealmFieldsRequiredOnCreation ==
    registration_last.submitted =>
        LET data == registration_last.data IN
        /\ \A field \in {"realm_name", "realm_type", "realm_default_language"} :
               LeftEmpty(data, field) =>
                   IF registration_form.realm_creation
                   THEN ErrorsOf(field) = {"required"}
                   ELSE ErrorsOf(field) = {}
        /\ LeftEmpty(data, "realm_subdomain") =>
               IF registration_form.realm_creation
               THEN ErrorsOf("realm_subdomain") =
                        IF is_root_domain_available(existing_realms)
                        THEN {} ELSE {"unavailable"}
               ELSE ErrorsOf("realm_subdomain") = {}

\* C20 witness: a realm creation form was submitted with every field filled
\* in but the realm name, and failed for it alone.
C20_Witness ==
    /\ registration_last.submitted
    /\ registration_form.realm_creation
    /\ LeftEmpty(registration_last.data, "realm_name")
    /\ registration_last.errors = {<<"realm_name", "required">>}

\* C21: clean_password checks the strength of the password exactly when the
\* password field is required: a password submitted to a form that does not
\* require one raises nothing, whatever its strength, and a password
\* submitted to a form that requires one raises PASSWORD_TOO_WEAK_ERROR if
\* check_password_strength refuses it, whichever way it is weak, and nothing
\* otherwise.
C21_StrengthCheckedWhenRequired ==
    (registration_last.submitted /\ registration_last.data.password # "") =>
        LET password == registration_last.data.password IN
        IF registration_form.password_required /\ ~check_password_strength(password)
        THEN ErrorsOf("password") = {PASSWORD_TOO_WEAK_ERROR}
        ELSE ErrorsOf("password") = {}

\* C21 witness: a form that requires a password refused one that is long
\* enough but easily guessed.
C21_Witness ==
    /\ registration_last.submitted
    /\ registration_form.password_required
    /\ registration_last.data.password = "password1234"
    /\ <<"password", PASSWORD_TOO_WEAK_ERROR>> \in registration_last.errors

(***************************************************************************)
(* Claims about HomepageForm.                                              *)
(***************************************************************************)
\* clean_email was run for a mit.edu address and reached
\* email_is_not_mit_mailing_list.
MitAddressChecked ==
    /\ homepage_last.cleaned
    /\ homepage_last.email.domain = "mit.edu"
    /\ homepage_form.realm_exists
    /\ homepage_form.is_zephyr_mirror_realm
    /\ homepage_form.from_multiuse_invite \/
           /\ ~homepage_form.invite_required
           /\ ~homepage_form.require_password_backend \/
                  homepage_form.password_auth_enabled
    /\ homepage_last.allowed = OK

\* What clean_email does for the same address when the name exists.
AsForExistingName ==
    HomepageForm_clean_email(homepage_form, homepage_last.email, homepage_last.allowed,
                             DnsAnswer, homepage_last.licenses_left)

\* C22 as stated: a mit.edu address is rejected with the validation error
\* exactly when the lookup reports NXDOMAIN, and when the lookup fails with
\* another DNS error clean_email goes on and ends as for an existing name.
C22_Original ==
    MitAddressChecked =>
        /\ homepage_last.result = Raises("ValidationError", MIT_VALIDATION_ERROR)
               <=> homepage_last.dns = NXDOMAIN
        /\ homepage_last.dns \in OtherDnsErrors =>
               homepage_last.result = AsForExistingName

\* C22: a mit.edu address is rejected with the validation error exactly
\* when the lookup reports NXDOMAIN.  When the lookup fails with another DNS
\* error no validation error is raised for the address, but the exception is
\* not caught: it leaves the validator and clean_email, and the checks
\* after it are not made.  When the lookup answers, clean_email goes on.
C22_OnlyNxdomainRejectsOthersPropagate ==
    MitAddressChecked =>
        /\ homepage_last.result = Raises("ValidationError", MIT_VALIDATION_ERROR)
               <=> homepage_last.dns = NXDOMAIN
        /\ homepage_last.dns \in OtherDnsErrors =>
               homepage_last.result = Raises("Exception", homepage_last.dns)
        /\ homepage_last.dns = DnsAnswer =>
               homepage_last.result \in {Returns, Raises("ValidationError", LicensesInUse)}

\* C22 witness: the lookup for a mit.edu address timed out and the exception
\* ended clean_email.
C22_Witness ==
    /\ MitAddressChecked
    /\ homepage_last.dns = "dns.resolver.LifetimeTimeout"
    /\ homepage_last.result.kind = "Exception"

(***************************************************************************)
(* Claims about the avatar endpoints.                                      *)
(***************************************************************************)
\* The last avatar request came from a spectator.
SpectatorAsked ==
    /\ avatar_last.endpoint # "none"
    /\ avatar_last.requester = AnonymousUser

\* The last request named the user by an email address.
AskedByEmail == avatar_last.email # ""

\* C23 as stated: a spectator's request to avatar_by_id, avatar_by_email or
\* avatar_medium is answered with a redirect when the realm allows web
\* public access and with MissingAuthenticationError when it does not.
C23_Original ==
    SpectatorAsked =>
        IF avatar_realm.web_public
        THEN avatar_last.response.kind \in {"redirect", "RateLimitedError"}
        ELSE avatar_last.response.kind = MissingAuthenticationError

\* C23: a spectator's request that names the user by id (avatar_by_id, or
\* avatar_medium with a user id) raises MissingAuthenticationError when the
\* realm does not allow web public access and is otherwise answered with a
\* redirect to the computed URL, unless the spectator rate limiter refuses
\* it; a spectator's request that names the user by email (avatar_by_email,
\* or avatar_medium with an email) raises MissingAuthenticationError
\* whatever the realm allows.
C23_SpectatorAvatarByIdOnly ==
    SpectatorAsked =>
        LET r == avatar_last
            url == IF r.user_id \in Humans THEN avatar_url(r.user_id, r.medium)
                   ELSE get_avatar_for_inaccessible_user
        IN  IF AskedByEmail \/ ~avatar_realm.web_public
            THEN r.response.kind = MissingAuthenticationError
            ELSE IF avatar_realm.rate_limiting /\ r.limited
            THEN r.response.kind = "RateLimitedError"
            ELSE r.response = redirect(url, r.query)

\* C23 witness: with web public access allowed, a spectator was redirected
\* to the medium avatar of a user named by id.
C23_Witness ==
    /\ SpectatorAsked
    /\ avatar_realm.web_public
    /\ avatar_last.endpoint = "avatar_medium"
    /\ avatar_last.user_id = 1
    /\ avatar_last.response = redirect(avatar_url(1, TRUE), avatar_last.query)

(***************************************************************************)
(* Claims about concurrent clean_captcha calls.                            *)
(***************************************************************************)
\* The event is in the log, and where.
Happened(event) == \E i \in DOMAIN race_events : race_events[i] = event
PositionOf(event) == CHOOSE i \in DOMAIN race_events : race_events[i] = event

\* Both requests returned the payload.
DoubleSpend == \A r \in Requests : race_result[r] = OK

\* C24: two requests of one session that submit the same payload can both
\* succeed, and they do so exactly by interleaving: whenever both have
\* succeeded, each read the session before the other wrote its filtered
\* list back; a request that reads after the other's write-back fails.
C24_DoubleSpendOnlyByInterleaving ==
    /\ DoubleSpend =>
           \A r, o \in Requests :
               /\ Happened(<<r, "read">>) /\ Happened(<<o, "write">>)
               /\ PositionOf(<<r, "read">>) < PositionOf(<<o, "write">>)
    /\ \A r, o \in Requests :
           ( /\ r # o
             /\ Happened(<<r, "read">>) /\ Happened(<<o, "write">>)
             /\ PositionOf(<<o, "write">>) < PositionOf(<<r, "read">>) ) =>
               race_result[r] = CaptchaFailed

\* C24 witness: one challenge was spent twice: both requests succeeded with
\* the same payload, the second having read before the first wrote.
C24_Witness ==
    /\ DoubleSpend
    /\ race_payload.solved
    /\ race_events = <<<<1, "read">>, <<2, "read">>, <<1, "write">>, <<2, "write">>>>
    /\ \A i \in DOMAIN altcha_challenges :
           altcha_challenges[i][1] # race_payload.challenge

(***************************************************************************)
(* Claims about the two role authorizations.                               *)
(***************************************************************************)
\* What update_user_backend decides of a requested role: the section is
\* skipped, one of the two errors is raised, or the change is allowed.
update_user_role_decision(us, c, t, role) ==
    IF role = None \/ us[t].role = role THEN "skipped"
    ELSE IF update_user_role_check(us, c, t, role) # OK
    THEN update_user_role_check(us, c, t, role)
    ELSE "allowed"

\* What patch_bot_backend decides of a requested role.
patch_bot_role_decision(us, c, t, role) ==
    IF role = None \/ us[t].role = role THEN "skipped"
    ELSE IF patch_bot_role_check(us, c, t, role) # OK
    THEN patch_bot_role_check(us, c, t, role)
    ELSE "allowed"

\* The decision seen in how the last request, which asked for a role and
\* nothing else, ended.
RoleDecisionSeen ==
    IF last'.err \in {OwnerRequired, AdminRequired} THEN last'.err
    ELSE IF \/ "do_change_user_role" \in last'.calls
            \/ last'.err # OK
    THEN "allowed"
    ELSE "skipped"

\* C25: for every caller, target and requested role, the role
\* authorization of update_user_backend and that of patch_bot_backend decide
\* the same: skipped when the role is not given or unchanged, the owner
\* required error, the administrator required error, or allowed; and that
\* decision is what the endpoint that ran acted on.
C25_SameRoleDecision ==
    [][ (RanUpdateUserBackend \/ RanPatchBotBackend) =>
          LET c == last'.caller
              t == last'.target
              role == last'.req.role
          IN  /\ update_user_role_decision(users, c, t, role)
                     = patch_bot_role_decision(users, c, t, role)
              /\ RoleDecisionSeen =
                     IF last'.op = "patch_bot_backend"
                     THEN patch_bot_role_decision(users, c, t, role)
                     ELSE update_user_role_decision(users, c, t, role) ]_vars

\* C25 witness: the owner of a bot, who is no administrator, asked
\* patch_bot_backend for a role of the bot and was refused as
\* update_user_backend refuses such a caller.
C25_Witness ==
    /\ last.op = "patch_bot_backend"
    /\ last.err = AdminRequired
    /\ last.req.role = ROLE_GUEST
    /\ users[last.target].bot_owner_id = last.caller
    /\ update_user_role_decision(users, last.caller, last.target, last.req.role)
           = AdminRequired

(***************************************************************************)
(* Claims about the deactivation of owners by others.                      *)
(***************************************************************************)
OnlyOwnerError == "JsonableError: Cannot deactivate the only organization owner"

ConcHappened(event) == \E i \in DOMAIN conc_events : conc_events[i] = event
ConcPositionOf(event) == CHOOSE i \in DOMAIN conc_events : conc_events[i] = event

\* C27 as stated: in a realm with exactly two active owners, two concurrent
\* deactivate_user_own_backend requests, or one concurrent with an
\* update_user_backend demotion of the other owner, never leave the realm
\* without an active human owner.
C27_Original == get_human_owner_users(users) # {}

\* C27: the realm is left without an active human owner only by
\* interleaving: both requests made their checks before either of them
\* wrote.  A request that makes its checks after the other has written
\* keeps the last owner.
C27_OwnersLostOnlyByInterleaving ==
    get_human_owner_users(users) = {} =>
        \A r, o \in Requests :
            /\ ConcHappened(<<r, "check">>) /\ ConcHappened(<<o, "write">>)
            /\ ConcPositionOf(<<r, "check">>) < ConcPositionOf(<<o, "write">>)

\* C27 witness: each of the two owners asked to deactivate their own account,
\* both requests made their checks before either wrote, both succeeded and
\* no active human owner is left.
C27_Witness ==
    /\ \A r \in Requests :
           /\ conc_req[r].op = "deactivate_user_own_backend"
           /\ conc_req[r].caller = r
           /\ conc_err[r] = OK
    /\ conc_events = <<<<1, "check">>, <<2, "check">>, <<1, "write">>, <<2, "write">>>>
    /\ get_human_owner_users(users) = {}

(***************************************************************************)
(* Claims about patch_bot_backend requests that end in an error.           *)
(***************************************************************************)
\* C28 as stated: a patch_bot_backend request that ends in an error leaves
\* the bot as it was: none of the changes asked for in the call is persisted.
C28_Original ==
    [][ (last'.op = "patch_bot_backend" /\ last'.err # OK) => users' = users ]_vars

\* C28: when a patch_bot_backend request ends in an error, the writes of the
\* sections before the one that raised stand: the bot has the requested
\* full name, role or owner exactly when do_change_full_name,
\* do_change_user_role or do_change_bot_owner was called before the error,
\* and is otherwise as it was; no other row changes.
C28_WritesBeforeTheErrorStand ==
    [][ (RanPatchBotBackend /\ last'.err # OK) =>
          LET t == last'.target
              req == last'.req
          IN  /\ \A i \in UserIds \ {t} : users'[i] = users[i]
              /\ users'[t] =
                     [users[t] EXCEPT
                        !.full_name = IF "do_change_full_name" \in last'.calls
                                      THEN req.full_name ELSE @,
                        !.role = IF "do_change_user_role" \in last'.calls
                                 THEN req.role ELSE @,
                        !.bot_owner_id = IF "do_change_bot_owner" \in last'.calls
                                         THEN req.bot_owner_id ELSE @] ]_vars

\* C28 witness: a request for a new full name, a new role and a deactivated
\* new owner failed on the owner, and the bot has the new name and role.
C28_Witness ==
    /\ last.op = "patch_bot_backend"
    /\ last.err = OwnerDeactivated
    /\ last.req.full_name = NewName
    /\ users[last.target].full_name = NewName
    /\ last.req.role = ROLE_GUEST
    /\ users[last.target].role = ROLE_GUEST
    /\ last.calls = {"do_change_full_name", "do_change_user_role"}

(***************************************************************************)
(* Claims about what clean_captcha leaves in the session.                  *)
(***************************************************************************)
\* The entry is not one of the challenge.
OtherChallenge(challenge, entry) == entry[1] # challenge

\* C29: a clean_captcha that fails (challenges disabled, a solution the
\* verifier refuses, an exception of the verifier, a challenge that is not in
\* the session) leaves the session's altcha_challenges as it was; one that
\* succeeds removes the entries of the verified challenge, which was there,
\* and keeps every other entry, in the order they had.
C29_SessionFrame ==
    [][ CleanCaptcha =>
          LET challenge == captcha_last'.payload.challenge IN
          IF captcha_last'.err # OK
          THEN altcha_challenges' = altcha_challenges
          ELSE /\ \E i \in DOMAIN altcha_challenges :
                      altcha_challenges[i][1] = challenge
               /\ altcha_challenges' =
                      SelectSeq(altcha_challenges,
                                LAMBDA entry : OtherChallenge(challenge, entry)) ]_vars

\* C29 witness: with three challenges outstanding the first was verified,
\* and the other two are left in their order.
C29_Witness ==
    /\ captcha_last.err = OK
    /\ captcha_last.payload.challenge = 1
    /\ altcha_challenges = <<SessionEntry(2), SessionEntry(3)>>

(***************************************************************************)
(* Claims about the order of the checks in ZulipPasswordResetForm.save.    *)
(***************************************************************************)
\* C30: a save that is skipped (email auth disabled, an LDAP-managed email,
\* a deactivated realm) consults no rate limiter: it returns, never raises
\* RateLimitedError whatever the limiters hold, and leaves the per-email and
\* the per-IP counts as they were.  In a save that is not skipped the per-IP
\* limiter is consulted only after the per-email limiter, and only when that
\* one has let the request pass: a request the per-email limiter refuses
\* leaves the per-IP counts as they were.
C30_SkipsBeforeLimitersEmailBeforeIp ==
    [][ PasswordReset =>
          LET r == reset_last' IN
          /\ ~ReachedLimiters(r.email) =>
                 /\ r.consulted = <<>>
                 /\ r.err = Returned
                 /\ email_hits' = email_hits
                 /\ ip_hits' = ip_hits
          /\ (ReachedLimiters(r.email) /\ realm_settings.rate_limiting) =>
                 IF email_hits[r.email] >= EmailRateLimit
                 THEN /\ r.consulted = <<"email">>
                      /\ r.err.type = "RateLimitedError"
                      /\ ip_hits' = ip_hits
                 ELSE r.consulted = <<"email", "ip">> ]_vars

\* C30 witness: a request for an LDAP-managed email came from an address
\* whose per-IP limit was used up; it was skipped, no limiter was consulted
\* and it returned.
C30_Witness ==
    /\ realm_settings.rate_limiting
    /\ email_belongs_to_ldap(reset_last.email)
    /\ ip_hits[reset_last.ip] >= IpRateLimit
    /\ reset_last.consulted = <<>>
    /\ reset_last.err = Returned

====
